---- MODULE Spec2Model ----
(***************************************************************************)
(* A model of owu_chroma/chunkers.py: the three chunking strategies        *)
(* (MarkdownChunker, CodeChunker, TextChunker) and get_chunker.            *)
(*                                                                         *)
(* A Python str is a sequence of one-character strings.  Offsets are       *)
(* 0-based and ranges are half-open <<lo, hi>>, as Python's slices are.    *)
(* Every loop of the source is one action per iteration; the statements    *)
(* after a loop (the final flush, the return) are the action taken when    *)
(* the loop's sequence is exhausted.                                       *)
(***************************************************************************)
EXTENDS Integers, Sequences, FiniteSets, TLC

(***************************************************************************)
(* Bounds of the model.                                                    *)
(***************************************************************************)
MaxLen == 5
MaxChunkSize == 3
MaxOverlap == 2
ReuseLen == 2
MaxCalls == 2

(***************************************************************************)
(* Characters and Python's str primitives.                                 *)
(***************************************************************************)
NL == "\n"
SP == " "
HASH == "#"
DOT == "."
RBRACE == "}"

\* str.isspace / the regex class \s, on the characters the model draws.
IsSpace(c) == c \in {SP, NL}

SetMin(S) == CHOOSE x \in S : \A y \in S : x <= y
SetMax(S) == CHOOSE x \in S : \A y \in S : x >= y

\* s[lo:hi] for 0 <= lo, hi <= len(s)
Slice(s, lo, hi) == SubSeq(s, lo + 1, hi)

\* s[-n:] for n > 0: the whole of s when n >= len(s)
LastN(s, n) == IF n >= Len(s) THEN s ELSE SubSeq(s, Len(s) - n + 1, Len(s))

\* The range of s[lo:hi].strip() inside s; <<lo, lo>> when it is blank.
StripRange(s, lo, hi) ==
  LET nonws == {j \in lo .. hi - 1 : ~IsSpace(s[j + 1])}
  IN IF nonws = {} THEN <<lo, lo>> ELSE <<SetMin(nonws), SetMax(nonws) + 1>>

\* str.strip()
Strip(s) ==
  LET r == StripRange(s, 0, Len(s)) IN Slice(s, r[1], r[2])

IsBlank(s) == \A j \in 1 .. Len(s) : IsSpace(s[j])

\* The set S of numbers as an ascending sequence: sorted(set(...)).
RECURSIVE SortedSeq(_)
SortedSeq(S) ==
  IF S = {} THEN <<>>
  ELSE LET m == SetMin(S) IN <<m>> \o SortedSeq(S \ {m})

\* The maximal run of whitespace of s starting at offset p: its end (exclusive).
WsRunEnd(s, p) ==
  LET stops == {j \in p .. Len(s) - 1 : ~IsSpace(s[j + 1])}
  IN IF stops = {} THEN Len(s) ELSE SetMin(stops)

\* re.split: the pieces of s[lo:hi] between the separators seps, a set of
\* disjoint non-empty ranges inside it, as ranges of s.
RECURSIVE PiecesFrom(_, _, _)
PiecesFrom(seps, from, hi) ==
  IF seps = {} THEN << <<from, hi>> >>
  ELSE LET first == CHOOSE r \in seps : \A q \in seps : r[1] <= q[1]
       IN << <<from, first[1]>> >> \o PiecesFrom(seps \ {first}, first[2], hi)

(***************************************************************************)
(* The regular expressions of the source, each by the separators it        *)
(* matches.                                                                *)
(***************************************************************************)

\* r'\n(?=#{1,3}\s+[^\n]+)': a newline followed by one to three '#', then
\* whitespace, then a character that is not a newline (the \s+ may give back
\* whitespace, so that character may be a blank).
HeadingAt(s, p) ==
  /\ p < Len(s)
  /\ s[p + 1] = NL
  /\ \E n \in 1 .. 3 :
       /\ p + n + 1 < Len(s)
       /\ \A j \in 1 .. n : s[p + j + 1] = HASH
       /\ IsSpace(s[p + n + 2])
       /\ \E q \in p + n + 2 .. Len(s) - 1 :
            /\ \A j \in p + n + 1 .. q - 1 : IsSpace(s[j + 1])
            /\ s[q + 1] # NL

\* re.split(r'\n(?=#{1,3}\s+[^\n]+)', content)
SplitSections(s) ==
  PiecesFrom({<<p, p + 1>> : p \in {q \in 0 .. Len(s) - 1 : HeadingAt(s, q)}},
             0, Len(s))

\* re.split(r'\n\n+', section) on s[lo:hi]: the maximal runs of two or more
\* newlines.
SplitParagraphs(s, lo, hi) ==
  LET starts == {p \in lo .. hi - 1 :
                   /\ s[p + 1] = NL
                   /\ (p = lo \/ s[p] # NL)}
      runEnd(p) == LET stops == {j \in p .. hi - 1 : s[j + 1] # NL}
                   IN IF stops = {} THEN hi ELSE SetMin(stops)
  IN PiecesFrom({<<p, runEnd(p)>> : p \in {q \in starts : runEnd(q) - q >= 2}},
                lo, hi)

\* re.split(r'\n\s*\n+', content): in a maximal run of whitespace that holds
\* two or more newlines, the part from its first newline to its last.
SplitBlocks(s) ==
  LET runStarts == {p \in 0 .. Len(s) - 1 :
                      /\ IsSpace(s[p + 1])
                      /\ (p = 0 \/ ~IsSpace(s[p]))}
      nls(p) == {j \in p .. WsRunEnd(s, p) - 1 : s[j + 1] = NL}
  IN PiecesFrom({<<SetMin(nls(p)), SetMax(nls(p)) + 1>> :
                   p \in {q \in runStarts : Cardinality(nls(q)) >= 2}},
                0, Len(s))

\* re.split(r'(?<=[.!?])\s+', content): a maximal run of whitespace that
\* follows a sentence terminal.
Terminals == {".", "!", "?"}

SplitSentences(s) ==
  LET starts == {p \in 1 .. Len(s) - 1 :
                   IsSpace(s[p + 1]) /\ s[p] \in Terminals}
  IN PiecesFrom({<<p, WsRunEnd(s, p)>> : p \in starts}, 0, Len(s))

\* text.split('\n') on s[lo:hi]
SplitLines(s, lo, hi) ==
  PiecesFrom({<<p, p + 1>> : p \in {q \in lo .. hi - 1 : s[q + 1] = NL}}, lo, hi)

\* The match of r'\n\s*\}\s*\n' that starts at offset p: its end (exclusive),
\* or -1 when there is none.  The first \s* must stop at the '}', the second
\* one backtracks to the last newline of the whitespace after it.
BraceMatchEnd(s, p) ==
  IF p >= Len(s) \/ s[p + 1] # NL THEN -1
  ELSE LET q == WsRunEnd(s, p + 1)
       IN IF q >= Len(s) \/ s[q + 1] # RBRACE THEN -1
          ELSE LET nls == {j \in q + 1 .. WsRunEnd(s, q + 1) - 1 : s[j + 1] = NL}
               IN IF nls = {} THEN -1 ELSE SetMax(nls) + 1

\* re.finditer(pattern, content): the starts of the leftmost non-overlapping
\* matches, scanning from offset from.
RECURSIVE BraceMatches(_, _)
BraceMatches(s, from) ==
  LET cands == {p \in from .. Len(s) - 1 : BraceMatchEnd(s, p) # -1}
  IN IF cands = {} THEN {}
     ELSE LET p == SetMin(cands)
          IN {p} \cup BraceMatches(s, BraceMatchEnd(s, p))

(***************************************************************************)
(* Chunk records.                                                          *)
(***************************************************************************)
Chunk(content, file_path, metadata) ==
  [content |-> content, source_file |-> file_path, metadata |-> metadata]

MarkdownMeta(i) == [chunk_type |-> "markdown", section_index |-> i]
CodeMeta(language) == [chunk_type |-> "code", language |-> language]
TextMeta == [chunk_type |-> "text"]

\* Emit with the chunk put first: chunks.insert(0, chunk)
EmitFirst(chunks, chunk) == <<chunk>> \o chunks

\* chunks.append(chunk)
Emit(chunks, chunk) == Append(chunks, chunk)

(***************************************************************************)
(* One iteration of each packing loop on the buffer current_chunk:         *)
(*   over    the flush test                                                *)
(*   emits   whether a chunk is appended, and content, its content         *)
(*   seed    what the buffer holds before the unit is appended             *)
(*   buffer  current_chunk after the iteration                             *)
(***************************************************************************)

\* MarkdownPack with the overlap cut from the stripped buffer:
\* current_chunk.strip()[-self.overlap:]
MarkdownPackSeedTrimmed(current_chunk, para, chunk_size, overlap) ==
  LET over == Len(current_chunk) + Len(para) >= chunk_size
      seed == IF over
              THEN IF overlap > 0 /\ current_chunk # <<>>
                   THEN LastN(Strip(current_chunk), overlap) \o <<NL, NL>>
                   ELSE <<>>
              ELSE current_chunk
  IN [over |-> over,
      emits |-> over /\ current_chunk # <<>>,
      content |-> Strip(current_chunk),
      seed |-> seed,
      buffer |-> seed \o para \o <<NL, NL>>]

\* MarkdownChunker.chunk, the body of `for para in paragraphs`
MarkdownPack(current_chunk, para, chunk_size, overlap) ==
  LET over == Len(current_chunk) + Len(para) >= chunk_size
      seed == IF over
              THEN IF overlap > 0 /\ current_chunk # <<>>
                   THEN LastN(current_chunk, overlap) \o <<NL, NL>>
                   ELSE <<>>
              ELSE current_chunk
  IN [over |-> over,
      emits |-> over /\ current_chunk # <<>>,
      content |-> Strip(current_chunk),
      seed |-> seed,
      buffer |-> seed \o para \o <<NL, NL>>]

\* CodeChunker._newline_fallback, the body of `for block in logical_blocks`
\* for a block that is not blank; the chunk flushed here is not stripped.
BlockPack(current_chunk, block, chunk_size, overlap) ==
  LET over == Len(current_chunk) + Len(block) >= chunk_size
      seed == IF over
              THEN IF overlap > 0 /\ current_chunk # <<>>
                   THEN LastN(current_chunk, overlap) \o <<NL, NL>>
                   ELSE <<>>
              ELSE current_chunk
  IN [over |-> over,
      emits |-> over /\ current_chunk # <<>>,
      content |-> current_chunk,
      seed |-> seed,
      buffer |-> seed \o block \o <<NL, NL>>]

\* "\n".join(lines)
RECURSIVE JoinLines(_)
JoinLines(ls) ==
  IF ls = <<>> THEN <<>>
  ELSE IF Len(ls) = 1 THEN ls[1]
  ELSE ls[1] \o <<NL>> \o JoinLines(Tail(ls))

\* The loop `for l in reversed(chunk_lines)` of _split_large_chunk: the
\* trailing lines taken while total_len + len(l) stays below overlap.
RECURSIVE OverlapLines(_, _, _)
OverlapLines(chunk_lines, total_len, overlap) ==
  IF chunk_lines = <<>> THEN <<>>
  ELSE LET l == chunk_lines[Len(chunk_lines)]
       IN IF total_len + Len(l) >= overlap THEN <<>>
          ELSE OverlapLines(SubSeq(chunk_lines, 1, Len(chunk_lines) - 1),
                            total_len + Len(l), overlap) \o <<l>>

\* current_chunk.split('\n'), as strings
LinesOf(s) ==
  LET rs == SplitLines(s, 0, Len(s))
  IN [j \in 1 .. Len(rs) |-> Slice(s, rs[j][1], rs[j][2])]

\* LinePack with a line longer than chunk_size cut to chunk_size:
\* line[:self.chunk_size]
LinePackTruncating(current_chunk, line, chunk_size, overlap) ==
  LET over == Len(current_chunk) + Len(line) >= chunk_size
      seed == IF over
              THEN IF overlap > 0 /\ current_chunk # <<>>
                   THEN JoinLines(OverlapLines(LinesOf(current_chunk), 0, overlap))
                          \o <<NL>>
                   ELSE <<>>
              ELSE current_chunk
  IN [over |-> over,
      emits |-> over /\ current_chunk # <<>>,
      content |-> current_chunk,
      seed |-> seed,
      buffer |-> seed \o Slice(line, 0, IF Len(line) > chunk_size
                                         THEN chunk_size ELSE Len(line))
                      \o <<NL>>]

\* LinePack with the overlap cut by characters: current_chunk[-self.overlap:]
LinePackCharOverlap(current_chunk, line, chunk_size, overlap) ==
  LET over == Len(current_chunk) + Len(line) >= chunk_size
      seed == IF over
              THEN IF overlap > 0 /\ current_chunk # <<>>
                   THEN LastN(current_chunk, overlap) \o <<NL>>
                   ELSE <<>>
              ELSE current_chunk
  IN [over |-> over,
      emits |-> over /\ current_chunk # <<>>,
      content |-> current_chunk,
      seed |-> seed,
      buffer |-> seed \o line \o <<NL>>]

\* CodeChunker._split_large_chunk, the body of `for line in lines`; the chunk
\* flushed here is not stripped.
LinePack(current_chunk, line, chunk_size, overlap) ==
  LET over == Len(current_chunk) + Len(line) >= chunk_size
      seed == IF over
              THEN IF overlap > 0 /\ current_chunk # <<>>
                   THEN JoinLines(OverlapLines(LinesOf(current_chunk), 0, overlap))
                          \o <<NL>>
                   ELSE <<>>
              ELSE current_chunk
  IN [over |-> over,
      emits |-> over /\ current_chunk # <<>>,
      content |-> current_chunk,
      seed |-> seed,
      buffer |-> seed \o line \o <<NL>>]

\* SentencePack with the flush test `>` for `>=`
SentencePackFlushLate(current_chunk, sentence, chunk_size, overlap) ==
  LET over == Len(current_chunk) + Len(sentence) > chunk_size
      seed == IF over
              THEN IF overlap > 0 /\ current_chunk # <<>>
                   THEN LastN(current_chunk, overlap) \o <<SP>>
                   ELSE <<>>
              ELSE IF current_chunk # <<>> THEN current_chunk \o <<SP>> ELSE <<>>
  IN [over |-> over,
      emits |-> over /\ current_chunk # <<>>,
      content |-> Strip(current_chunk),
      seed |-> seed,
      buffer |-> seed \o sentence]

\* SentencePack with the joining blank counted in the flush test:
\* len(current_chunk) + 1 + len(sentence) >= self.chunk_size
SentencePackCountingBlank(current_chunk, sentence, chunk_size, overlap) ==
  LET over == Len(current_chunk) + 1 + Len(sentence) >= chunk_size
      seed == IF over
              THEN IF overlap > 0 /\ current_chunk # <<>>
                   THEN LastN(current_chunk, overlap) \o <<SP>>
                   ELSE <<>>
              ELSE IF current_chunk # <<>> THEN current_chunk \o <<SP>> ELSE <<>>
  IN [over |-> over,
      emits |-> over /\ current_chunk # <<>>,
      content |-> Strip(current_chunk),
      seed |-> seed,
      buffer |-> seed \o sentence]

\* TextChunker.chunk, the body of `for sentence in sentences`
SentencePack(current_chunk, sentence, chunk_size, overlap) ==
  LET over == Len(current_chunk) + Len(sentence) >= chunk_size
      seed == IF over
              THEN IF overlap > 0 /\ current_chunk # <<>>
                   THEN LastN(current_chunk, overlap) \o <<SP>>
                   ELSE <<>>
              ELSE IF current_chunk # <<>> THEN current_chunk \o <<SP>> ELSE <<>>
  IN [over |-> over,
      emits |-> over /\ current_chunk # <<>>,
      content |-> Strip(current_chunk),
      seed |-> seed,
      buffer |-> seed \o sentence]

(***************************************************************************)
(* The frame of one call of chunk(): the position in the handler (pc), the *)
(* arguments, the locals of the source under their names, and two history  *)
(* fields that the code does not hold:                                     *)
(*   placed  the units appended to current_chunk as new content, each with *)
(*           its range in content and its offset in the buffer             *)
(*   trace   for each element of chunks: the buffer it was cut from (buf), *)
(*           the units placed in it, the packing run (the index of the     *)
(*           outer element it belongs to) and its kind: the pc of the loop *)
(*           that flushed it, or "section", "segment", "tail" for a piece  *)
(*           emitted whole                                                 *)
(* seq is the outer sequence (sections, split_positions) and i the index   *)
(* of its next element; units is the inner sequence (paragraphs, lines,    *)
(* logical_blocks, sentences) and k the index of its next element.         *)
(***************************************************************************)
NewFrame(content, file_path) ==
  [pc |-> "idle", content |-> content, file_path |-> file_path,
   chunks |-> <<>>, seq |-> <<>>, i |-> 0, units |-> <<>>, k |-> 0,
   current_chunk |-> <<>>, prev_pos |-> 0, language |-> "",
   placed |-> <<>>, trace |-> <<>>]

IdleFrame == NewFrame(<<>>, "")

\* `return chunks`: the locals are gone, the returned list is kept.
Return(c) ==
  [NewFrame(c.content, c.file_path) EXCEPT
     !.pc = "done", !.chunks = c.chunks, !.trace = c.trace]

Placement(u, off) == [lo |-> u[1], hi |-> u[2], off |-> off]

TraceOf(buf, placed, run, kind) ==
  [buf |-> buf, placed |-> placed, run |-> run, kind |-> kind]

\* Packed with the unit taken up again after a flush: the index of the next
\* unit stays where it is when the iteration has flushed.
PackedWithoutAdvance(c, p, u, metadata, run) ==
  [c EXCEPT
     !.chunks = IF p.emits
                THEN Emit(@, Chunk(p.content, c.file_path, metadata))
                ELSE @,
     !.trace = IF p.emits
               THEN Append(@, TraceOf(c.current_chunk, c.placed, run, c.pc))
               ELSE @,
     !.placed = (IF p.over THEN <<>> ELSE @) \o <<Placement(u, Len(p.seed))>>,
     !.current_chunk = p.buffer,
     !.k = IF p.emits THEN c.k ELSE c.k + 1]

\* The frame after one iteration p of a packing loop on the unit with range u.
Packed(c, p, u, metadata, run) ==
  [c EXCEPT
     !.chunks = IF p.emits
                THEN Emit(@, Chunk(p.content, c.file_path, metadata))
                ELSE @,
     !.trace = IF p.emits
               THEN Append(@, TraceOf(c.current_chunk, c.placed, run, c.pc))
               ELSE @,
     !.placed = (IF p.over THEN <<>> ELSE @) \o <<Placement(u, Len(p.seed))>>,
     !.current_chunk = p.buffer,
     !.k = c.k + 1]

\* FinalFlush left out: the buffer that remains after the loop is dropped.
FinalFlushSkipped(c, metadata, run) == c

\* `if current_chunk.strip(): chunks.append(...)` after a packing loop
FinalFlush(c, metadata, run) ==
  IF Strip(c.current_chunk) # <<>>
  THEN [c EXCEPT
          !.chunks = Emit(@, Chunk(Strip(c.current_chunk), c.file_path, metadata)),
          !.trace = Append(@, TraceOf(c.current_chunk, c.placed, run, c.pc))]
  ELSE c

\* A piece of content emitted whole: content[u[1]:u[2]].strip()
EmitWhole(c, u, metadata, kind) ==
  [c EXCEPT
     !.chunks = Emit(@, Chunk(Strip(Slice(c.content, u[1], u[2])),
                              c.file_path, metadata)),
     !.trace = Append(@, TraceOf(Slice(c.content, u[1], u[2]),
                                 <<Placement(u, 0)>>, c.i, kind))]

(***************************************************************************)
(* MarkdownChunker.chunk                                                   *)
(***************************************************************************)
MarkdownBegin(ch, content, file_path) ==
  [NewFrame(content, file_path) EXCEPT
     !.pc = "sections", !.seq = SplitSections(content)]

\* MarkdownSection with the bound of a section at chunk_size: a section
\* longer than chunk_size is packed by paragraphs.
MarkdownSectionSingleBound(ch, c) ==
  IF c.i >= Len(c.seq) THEN Return(c)
  ELSE LET sec == c.seq[c.i + 1]
           section == Slice(c.content, sec[1], sec[2])
       IN IF Strip(section) = <<>> THEN [c EXCEPT !.i = c.i + 1]
          ELSE IF Len(section) > ch.chunk_size
          THEN [c EXCEPT !.pc = "paragraphs",
                         !.units = SplitParagraphs(c.content, sec[1], sec[2]),
                         !.k = 0, !.current_chunk = <<>>, !.placed = <<>>]
          ELSE [EmitWhole(c, sec, MarkdownMeta(c.i), "section") EXCEPT
                  !.i = c.i + 1]

\* One iteration of `for i, section in enumerate(sections)` up to the inner
\* loop; `return chunks` when the sections are exhausted.
MarkdownSection(ch, c) ==
  IF c.i >= Len(c.seq) THEN Return(c)
  ELSE LET sec == c.seq[c.i + 1]
           section == Slice(c.content, sec[1], sec[2])
       IN IF Strip(section) = <<>> THEN [c EXCEPT !.i = c.i + 1]
          ELSE IF Len(section) > ch.chunk_size * 2
          THEN [c EXCEPT !.pc = "paragraphs",
                         !.units = SplitParagraphs(c.content, sec[1], sec[2]),
                         !.k = 0, !.current_chunk = <<>>, !.placed = <<>>]
          ELSE [EmitWhole(c, sec, MarkdownMeta(c.i), "section") EXCEPT
                  !.i = c.i + 1]

\* One iteration of `for para in paragraphs`; after the last one the final
\* flush, and on to the next section.
MarkdownParagraph(ch, c) ==
  IF c.k < Len(c.units)
  THEN LET u == c.units[c.k + 1]
       IN Packed(c, MarkdownPack(c.current_chunk, Slice(c.content, u[1], u[2]),
                                 ch.chunk_size, ch.overlap),
                 u, MarkdownMeta(c.i), c.i)
  ELSE [FinalFlush(c, MarkdownMeta(c.i), c.i) EXCEPT
          !.pc = "sections", !.i = c.i + 1, !.units = <<>>, !.k = 0,
          !.current_chunk = <<>>, !.placed = <<>>]

(***************************************************************************)
(* Paths: Path(file_path).suffix.lower()                                   *)
(***************************************************************************)
UpperCase == <<"A", "B", "C", "D", "E", "F", "G", "H", "I", "J", "K", "L", "M",
               "N", "O", "P", "Q", "R", "S", "T", "U", "V", "W", "X", "Y", "Z">>
LowerCase == <<"a", "b", "c", "d", "e", "f", "g", "h", "i", "j", "k", "l", "m",
               "n", "o", "p", "q", "r", "s", "t", "u", "v", "w", "x", "y", "z">>

\* str.lower()
Lower(s) ==
  [j \in 1 .. Len(s) |->
     IF \E n \in 1 .. 26 : UpperCase[n] = s[j]
     THEN LowerCase[CHOOSE n \in 1 .. 26 : UpperCase[n] = s[j]]
     ELSE s[j]]

\* PurePath.suffix: of the final component, from its last dot, unless that
\* dot is its first or its last character.
Suffix(file_path) ==
  LET slashes == {j \in 1 .. Len(file_path) : file_path[j] = "/"}
      name == IF slashes = {} THEN file_path
              ELSE SubSeq(file_path, SetMax(slashes) + 1, Len(file_path))
      dots == {j \in 1 .. Len(name) : name[j] = DOT}
  IN IF dots = {} THEN <<>>
     ELSE LET d == SetMax(dots)
          IN IF 1 < d /\ d < Len(name) THEN SubSeq(name, d, Len(name)) ELSE <<>>

\* CodeChunker.detect_language: lang_map.get(ext, 'generic')
LangMap ==
  { << <<".", "p", "y">>, "python" >>,
    << <<".", "j", "a", "v", "a">>, "java" >>,
    << <<".", "c">>, "c_cpp" >>,
    << <<".", "c", "p", "p">>, "c_cpp" >>,
    << <<".", "c", "c">>, "c_cpp" >>,
    << <<".", "h">>, "c_cpp" >>,
    << <<".", "h", "p", "p">>, "c_cpp" >>,
    << <<".", "j", "s">>, "javascript" >>,
    << <<".", "j", "s", "x">>, "javascript" >>,
    << <<".", "t", "s">>, "javascript" >>,
    << <<".", "t", "s", "x">>, "javascript" >>,
    << <<".", "g", "o">>, "go" >>,
    << <<".", "r", "s">>, "rust" >>,
    << <<".", "c", "s">>, "c_cpp" >>,
    << <<".", "s", "w", "i", "f", "t">>, "c_cpp" >>,
    << <<".", "k", "t">>, "java" >> }

DetectLanguage(file_path) ==
  LET ext == Lower(Suffix(file_path))
  IN IF \E e \in LangMap : e[1] = ext
     THEN (CHOOSE e \in LangMap : e[1] = ext)[2]
     ELSE "generic"

\* get_split_patterns and the finditer loop of CodeChunker.chunk: the match
\* starts of every pattern of the language.  Of GENERIC_PATTERNS the first
\* needs '(' and '{' and the third a keyword, and every pattern of PATTERNS
\* needs a keyword; on contents over the characters 'a', ' ', '\n', '}' only
\* r'\n\s*\}\s*\n' of GENERIC_PATTERNS can match.
PatternStarts(language, content) ==
  IF language = "generic" THEN BraceMatches(content, 0) ELSE {}

(***************************************************************************)
(* CodeChunker.chunk, _newline_fallback and _split_large_chunk             *)
(***************************************************************************)
CodeBegin(ch, content, file_path) ==
  LET language == DetectLanguage(file_path)
      split_positions == SortedSeq(PatternStarts(language, content))
  IN IF split_positions = <<>>
     THEN [NewFrame(content, file_path) EXCEPT
             !.pc = "blocks", !.language = language,
             !.units = SplitBlocks(content)]
     ELSE [NewFrame(content, file_path) EXCEPT
             !.pc = "positions", !.language = language,
             !.seq = split_positions, !.prev_pos = 0]

\* _newline_fallback: one iteration of `for block in logical_blocks`; after
\* the last one the final flush and the return.
CodeBlock(ch, c) ==
  IF c.k < Len(c.units)
  THEN LET u == c.units[c.k + 1]
           b == StripRange(c.content, u[1], u[2])
       IN IF b[1] = b[2] THEN [c EXCEPT !.k = c.k + 1]
          ELSE Packed(c, BlockPack(c.current_chunk, Slice(c.content, b[1], b[2]),
                                   ch.chunk_size, ch.overlap),
                      b, CodeMeta(c.language), 0)
  ELSE Return(FinalFlush(c, CodeMeta(c.language), 0))

\* CodePosition moving the cursor past a short segment that it does not
\* emit.
CodePositionSkippingShort(ch, c) ==
  IF c.i < Len(c.seq)
  THEN LET pos == c.seq[c.i + 1]
           t == StripRange(c.content, c.prev_pos, pos)
           chunk_text == Slice(c.content, t[1], t[2])
       IN IF Len(chunk_text) > ch.chunk_size \/ c.prev_pos = 0
          THEN IF Len(chunk_text) > ch.chunk_size
               THEN [c EXCEPT !.pc = "lines",
                              !.units = SplitLines(c.content, t[1], t[2]),
                              !.k = 0, !.current_chunk = <<>>, !.placed = <<>>]
               ELSE [(IF chunk_text # <<>>
                      THEN EmitWhole(c, <<c.prev_pos, pos>>, CodeMeta(c.language),
                                     "segment")
                      ELSE c) EXCEPT
                       !.prev_pos = pos, !.i = c.i + 1]
          ELSE [c EXCEPT !.prev_pos = pos, !.i = c.i + 1]
  ELSE LET remaining == Strip(Slice(c.content, c.prev_pos, Len(c.content)))
       IN Return(IF remaining # <<>>
                 THEN EmitWhole(c, <<c.prev_pos, Len(c.content)>>,
                                CodeMeta(c.language), "tail")
                 ELSE c)

\* CodePosition finalizing at every boundary: a short segment is emitted
\* whole and the cursor moved wherever the cursor stands.
CodePositionEachSegment(ch, c) ==
  IF c.i < Len(c.seq)
  THEN LET pos == c.seq[c.i + 1]
           t == StripRange(c.content, c.prev_pos, pos)
           chunk_text == Slice(c.content, t[1], t[2])
       IN IF Len(chunk_text) > ch.chunk_size
          THEN [c EXCEPT !.pc = "lines",
                         !.units = SplitLines(c.content, t[1], t[2]),
                         !.k = 0, !.current_chunk = <<>>, !.placed = <<>>]
          ELSE [(IF chunk_text # <<>>
                 THEN EmitWhole(c, <<c.prev_pos, pos>>, CodeMeta(c.language),
                                "segment")
                 ELSE c) EXCEPT
                  !.prev_pos = pos, !.i = c.i + 1]
  ELSE LET remaining == Strip(Slice(c.content, c.prev_pos, Len(c.content)))
       IN Return(IF remaining # <<>>
                 THEN EmitWhole(c, <<c.prev_pos, Len(c.content)>>,
                                CodeMeta(c.language), "tail")
                 ELSE c)

\* One iteration of `for pos in split_positions` up to the call of
\* _split_large_chunk; after the last one the tail and the return.
CodePosition(ch, c) ==
  IF c.i < Len(c.seq)
  THEN LET pos == c.seq[c.i + 1]
           t == StripRange(c.content, c.prev_pos, pos)
           chunk_text == Slice(c.content, t[1], t[2])
       IN IF Len(chunk_text) > ch.chunk_size \/ c.prev_pos = 0
          THEN IF Len(chunk_text) > ch.chunk_size
               THEN [c EXCEPT !.pc = "lines",
                              !.units = SplitLines(c.content, t[1], t[2]),
                              !.k = 0, !.current_chunk = <<>>, !.placed = <<>>]
               ELSE [(IF chunk_text # <<>>
                      THEN EmitWhole(c, <<c.prev_pos, pos>>, CodeMeta(c.language),
                                     "segment")
                      ELSE c) EXCEPT
                       !.prev_pos = pos, !.i = c.i + 1]
          ELSE [c EXCEPT !.i = c.i + 1]
  ELSE LET remaining == Strip(Slice(c.content, c.prev_pos, Len(c.content)))
       IN Return(IF remaining # <<>>
                 THEN EmitWhole(c, <<c.prev_pos, Len(c.content)>>,
                                CodeMeta(c.language), "tail")
                 ELSE c)

\* _split_large_chunk: one iteration of `for line in lines`; after the last
\* one the final flush, chunks.extend(sub_chunks) and prev_pos = pos.
CodeLine(ch, c) ==
  IF c.k < Len(c.units)
  THEN LET u == c.units[c.k + 1]
       IN Packed(c, LinePack(c.current_chunk, Slice(c.content, u[1], u[2]),
                             ch.chunk_size, ch.overlap),
                 u, CodeMeta(c.language), c.i)
  ELSE [FinalFlush(c, CodeMeta(c.language), c.i) EXCEPT
          !.pc = "positions", !.prev_pos = c.seq[c.i + 1], !.i = c.i + 1,
          !.units = <<>>, !.k = 0, !.current_chunk = <<>>, !.placed = <<>>]

(***************************************************************************)
(* TextChunker.chunk                                                       *)
(***************************************************************************)
TextBegin(ch, content, file_path) ==
  [NewFrame(content, file_path) EXCEPT
     !.pc = "sentences", !.units = SplitSentences(content)]

\* One iteration of `for sentence in sentences`; after the last one the
\* final flush and the return.
TextSentence(ch, c) ==
  IF c.k < Len(c.units)
  THEN LET u == c.units[c.k + 1]
       IN Packed(c, SentencePack(c.current_chunk, Slice(c.content, u[1], u[2]),
                                 ch.chunk_size, ch.overlap),
                 u, TextMeta, 0)
  ELSE Return(FinalFlush(c, TextMeta, 0))

(***************************************************************************)
(* get_chunker and the strategy constructors                               *)
(***************************************************************************)
MarkdownExts == { <<".", "m", "d">>, <<".", "m", "d", "x">>,
                  <<".", "m", "a", "r", "k", "d", "o", "w", "n">> }
TextExts == { <<".", "t", "x", "t">>, <<".", "c", "s", "v">>, <<".", "l", "o", "g">>,
              <<".", "c", "o", "n", "f">>, <<".", "i", "n", "i">>,
              <<".", "c", "f", "g">>, <<".", "y", "a", "m", "l">>,
              <<".", "y", "m", "l">>, <<".", "j", "s", "o", "n">>,
              <<".", "t", "o", "m", "l">> }

\* __init__ of the three strategies: the arguments are stored as given.
Chunker(cls, chunk_size, overlap) ==
  [cls |-> cls, chunk_size |-> chunk_size, overlap |-> overlap]

\* get_chunker comparing the extension as it is written:
\* ext = Path(file_path).suffix
get_chunkerCaseSensitive(file_path, chunk_size, overlap) ==
  LET ext == Suffix(file_path)
  IN IF ext \in MarkdownExts THEN Chunker("MarkdownChunker", chunk_size, overlap)
     ELSE IF ext \in TextExts THEN Chunker("TextChunker", chunk_size, overlap)
     ELSE Chunker("CodeChunker", chunk_size, overlap)

get_chunker(file_path, chunk_size, overlap) ==
  LET ext == Lower(Suffix(file_path))
  IN IF ext \in MarkdownExts THEN Chunker("MarkdownChunker", chunk_size, overlap)
     ELSE IF ext \in TextExts THEN Chunker("TextChunker", chunk_size, overlap)
     ELSE Chunker("CodeChunker", chunk_size, overlap)

NoChunker == Chunker("none", 0, 0)

\* The entry of chunk() on the instance ch, by its class.
Begin(ch, content, file_path) ==
  CASE ch.cls = "MarkdownChunker" -> MarkdownBegin(ch, content, file_path)
    [] ch.cls = "CodeChunker" -> CodeBegin(ch, content, file_path)
    [] ch.cls = "TextChunker" -> TextBegin(ch, content, file_path)

\* The step of the handler at c.pc.
Step(ch, c) ==
  CASE c.pc = "sections" -> MarkdownSection(ch, c)
    [] c.pc = "paragraphs" -> MarkdownParagraph(ch, c)
    [] c.pc = "positions" -> CodePosition(ch, c)
    [] c.pc = "lines" -> CodeLine(ch, c)
    [] c.pc = "blocks" -> CodeBlock(ch, c)
    [] c.pc = "sentences" -> TextSentence(ch, c)

\* chunk(content, file_path) run to its return on the instance ch.
RECURSIVE Run(_, _)
Run(ch, c) == IF c.pc = "done" THEN c ELSE Run(ch, Step(ch, c))

ChunkResult(ch, content, file_path) == Run(ch, Begin(ch, content, file_path)).chunks

(***************************************************************************)
(* The inputs the model draws.                                             *)
(***************************************************************************)
\* Every str over alphabet of length at most n.
Strings(alphabet, n) == UNION {[1 .. l -> alphabet] : l \in 0 .. n}

\* One path per strategy, as process_zip passes it to get_chunker and chunk.
Paths == { <<"a", ".", "m", "d">>, <<"a", ".", "t", "x", "t">>,
           <<"a", ".", "w", "e", "i", "r", "d">> }

Alphabet(cls) ==
  CASE cls = "MarkdownChunker" -> {"a", NL, HASH}
    [] cls = "CodeChunker" -> {"a", NL, RBRACE}
    [] cls = "TextChunker" -> {"a", SP, DOT}

\* "# Title\n\nShort body."
TitleAndBody ==
  <<HASH, SP, "T", "i", "t", "l", "e", NL, NL,
    "S", "h", "o", "r", "t", SP, "b", "o", "d", "y", DOT>>

\* Longer contents: a blank section before a short and a long one, the
\* Markdown scenario of the spec, a packed second section, a leading blank
\* paragraph, two boundaries with a long segment between them, a blank line inside a long
\* first segment, three blocks without a boundary, and the content of the
\* spec's plain-text scenario; three boundaries with a long and a short
\* segment after the first.
Scenarios(cls) ==
  CASE cls = "MarkdownChunker" ->
         { <<"a", NL, HASH, NL, "a", NL, NL, "a">>, <<SP, NL, NL, "a">>,
           <<NL, HASH, NL, "a", NL, HASH, NL, "a", NL, NL, "a">>,
           TitleAndBody }
    [] cls = "CodeChunker" ->
         { <<"a", NL, RBRACE, NL, "a", NL, RBRACE, NL>>,
           <<"a", NL, NL, "a", NL, RBRACE, NL>>,
           <<"a", NL, NL, "a", NL, NL, "a">>,
           <<"a", NL, "a", "a", NL, RBRACE, NL>>,
           <<"a", NL, RBRACE, NL, "a", "a", NL, RBRACE, NL, "a", NL, RBRACE, NL>> }
    [] cls = "TextChunker" ->
         { <<"A", DOT, SP, "B", DOT, SP, "C", DOT>> }

Contents(cls) == Strings(Alphabet(cls), MaxLen) \cup Scenarios(cls)

ReuseContents(cls) == Strings(Alphabet(cls), ReuseLen) \cup Scenarios(cls)

\* Config.chunk_size and Config.chunk_overlap as config.py sets them
DefaultChunkSize == 1000
DefaultChunkOverlap == 100

\* (chunk_size, overlap): every pair within the bounds, chunk_size=5 with
\* overlap=0 of the spec's plain-text scenario, and the defaults.
Configs ==
  ((1 .. MaxChunkSize) \X (0 .. MaxOverlap))
    \cup {<<5, 0>>, <<DefaultChunkSize, DefaultChunkOverlap>>}

(***************************************************************************)
(* process_zip: the chunks of an archive, their embeddings and their ids.  *)
(***************************************************************************)
\* batch_size of LocalDBManager.add_chunks and RemoteSyncManager.sync_collection:
\* 1000 in the source, a few entries here; the slicing is the same.
batch_size == 3

\* batch_size of Embedder.embed_batch: 32 in the source
embed_batch_size == 2


\* max_retries of RemoteSyncManager.sync_collection
max_retries == 10

\* The archives hold files of up to MaxBatches * batch_size + 1 chunks.
MaxBatches == 2

Min(a, b) == IF a <= b THEN a ELSE b

\* xs[lo:hi] for 0 <= lo <= hi, clipped at len(xs)
PySlice(xs, lo, hi) == Slice(xs, Min(lo, Len(xs)), Min(hi, Len(xs)))

\* str.replace(old, new) for one-character old and new
Replace(s, old, new) == [k \in 1 .. Len(s) |-> IF s[k] = old THEN new ELSE s[k]]

\* The headings "# a", "# b", ... of the archives' Markdown files.
Letters == <<"a", "b", "c", "d", "e", "f", "g", "h", "i", "j", "k", "l", "m", "n", "o", "p">>

Heading(j) == <<HASH, SP, Letters[j]>>

HeadingA == Heading(1)

\* hashlib.md5(text.encode('utf-8')).hexdigest()[:16] of "# a", "# b", ...
Md5Table ==
  <<
     <<"c", "1", "c", "e", "1", "8", "5", "2", "7", "a", "c", "9", "b", "a", "7", "0">>,
     <<"5", "e", "e", "7", "e", "b", "4", "f", "e", "3", "2", "c", "a", "b", "b", "8">>,
     <<"0", "0", "d", "8", "3", "8", "5", "3", "f", "b", "9", "d", "f", "4", "5", "8">>,
     <<"5", "9", "6", "f", "9", "f", "c", "f", "6", "c", "5", "a", "b", "e", "1", "6">>,
     <<"9", "a", "0", "d", "7", "f", "d", "f", "7", "5", "6", "9", "7", "9", "b", "d">>,
     <<"9", "3", "4", "7", "d", "1", "9", "e", "2", "e", "2", "9", "4", "9", "7", "0">>,
     <<"0", "9", "7", "1", "d", "5", "2", "e", "0", "2", "2", "9", "e", "3", "d", "c">>,
     <<"6", "3", "c", "c", "7", "d", "d", "f", "9", "1", "4", "3", "2", "5", "6", "f">>,
     <<"6", "e", "9", "f", "a", "1", "3", "6", "6", "6", "e", "e", "9", "5", "0", "1">>,
     <<"d", "a", "f", "4", "6", "a", "3", "4", "c", "f", "e", "4", "9", "7", "1", "a">>,
     <<"7", "7", "e", "7", "2", "e", "b", "1", "0", "2", "6", "c", "7", "2", "7", "f">>,
     <<"d", "e", "d", "e", "9", "1", "b", "f", "2", "c", "a", "8", "c", "d", "d", "c">>,
     <<"7", "4", "8", "2", "9", "b", "4", "4", "0", "5", "8", "1", "0", "3", "7", "d">>,
     <<"d", "a", "c", "d", "b", "5", "b", "2", "6", "3", "e", "7", "0", "8", "6", "d">>,
     <<"e", "1", "8", "7", "7", "0", "2", "5", "6", "e", "3", "3", "3", "9", "8", "1">>,
     <<"d", "0", "8", "2", "4", "0", "1", "9", "2", "c", "b", "9", "9", "c", "3", "f">>
  >>

\* content_hash, for the contents of the archives' chunks
Md5Hex16(content) ==
  Md5Table[CHOOSE j \in 1 .. Len(Letters) : Heading(j) = content]

\* f"{chunk['source_file'].replace('/', '_')}_{content_hash}"
unique_id(chunk) ==
  Replace(chunk.source_file, "/", "_") \o <<"_">> \o Md5Hex16(chunk.content)

\* SentenceTransformer.encode of one text: a vector that the text determines.
Encode(text) == [vector_of |-> text]

\* SentenceTransformer.encode of a list of texts: one vector for each, in order.
EncodeAll(texts) == [k \in 1 .. Len(texts) |-> Encode(texts[k])]

\* Embedder.embed_batch with the progress bar: `for i in range(0, len(texts),
\* batch_size)`, embeddings.extend(...)
RECURSIVE EmbedFrom(_, _)
EmbedFrom(texts, i) ==
  IF i >= Len(texts) THEN <<>>
  ELSE EncodeAll(PySlice(texts, i, i + embed_batch_size))
         \o EmbedFrom(texts, i + embed_batch_size)

embed_batch(texts, show_progress, verbose) ==
  IF show_progress /\ verbose THEN EmbedFrom(texts, 0) ELSE EncodeAll(texts)

\* `sections` headings, one to a line, taken in turn from the first `period`
\* headings: the content of a Markdown file.
RECURSIVE HeadingLines(_, _)
HeadingLines(sections, period) ==
  IF sections = 0 THEN <<>>
  ELSE (IF sections = 1 THEN <<>>
        ELSE HeadingLines(sections - 1, period) \o <<NL>>)
         \o Heading(((sections - 1) % period) + 1)

\* A file of the archive.
ZipFile(file_path, content) == [file_path |-> file_path, content |-> content]

\* any(part.startswith('.') for part in file_path.split('/'))
HasDotPart(file_path) ==
  \E k \in 1 .. Len(file_path) :
    /\ file_path[k] = DOT
    /\ k = 1 \/ file_path[k - 1] = "/"

\* The body of `for file_info in zip_ref.infolist()` for one file: nothing for
\* a skipped file, else chunker.chunk(content, file_path).
FileChunks(f) ==
  IF HasDotPart(f.file_path) \/ Strip(f.content) = <<>> THEN <<>>
  ELSE ChunkResult(get_chunker(f.file_path, DefaultChunkSize, DefaultChunkOverlap),
                   f.content, f.file_path)

\* all_chunks after the loop: all_chunks.extend(chunks), file after file
RECURSIVE AllChunks(_)
AllChunks(files) ==
  IF files = <<>> THEN <<>>
  ELSE AllChunks(SubSeq(files, 1, Len(files) - 1)) \o FileChunks(files[Len(files)])

PathXY == <<"x", "/", "y", ".", "m", "d">>
PathX_Y == <<"x", "_", "y", ".", "m", "d">>
PathZ == <<"z", ".", "m", "d">>
PathDotX == <<".", "x", "/", "y", ".", "m", "d">>

\* A dict of collection.get(): the keys it holds and the four lists.
Results(keys, ids, documents, metadatas, embeddings) ==
  [keys |-> keys, ids |-> ids, documents |-> documents,
   metadatas |-> metadatas, embeddings |-> embeddings]

\* {}
EmptyDict == Results({}, <<>>, <<>>, <<>>, <<>>)

\* The frame of process_zip before it is called.
NoProcess ==
  [pc |-> "idle", files |-> <<>>, verbose |-> FALSE, reset_remote |-> FALSE,
   reset_all_remote |-> FALSE, all_chunks |-> <<>>, embeddings |-> <<>>,
   chunks_added |-> 0, local_data |-> EmptyDict, synced |-> FALSE]

\* The frame of LocalDBManager.add_chunks when no call is running.
NoAddChunks ==
  [pc |-> "idle", ids |-> <<>>, documents |-> <<>>, metadatas |-> <<>>,
   embeddings |-> <<>>, i |-> 0, total_added |-> 0, result |-> 0]

\* LocalDBManager.__init__: no client, no collection. `records` is what the
\* collection under db_path holds, `added` every batch handed to
\* collection.add with its outcome.
NoDatabase ==
  [client |-> FALSE, collection |-> FALSE, records |-> <<>>, added |-> <<>>,
   call |-> NoAddChunks]

\* RemoteSyncManager.__init__ and the frame of sync_collection when no call
\* is running.  `fault` tells that a call on the client has raised for a
\* cause outside the program (the connection, the server).
NoSync ==
  [client |-> FALSE, pc |-> "idle", reset_remote |-> FALSE,
   collection_exists |-> FALSE, existed |-> FALSE, action |-> "none",
   choice |-> <<>>, confirm |-> <<>>, attempt |-> 0, i |-> 0,
   total_added |-> 0, result |-> "none", fault |-> FALSE]

\* The remote server: the collections it holds, those deleted that it still
\* lists, the entries of the collection db_name, and every call that changes
\* the server, in order.
NoRemote == [names |-> {}, lingering |-> {}, records |-> <<>>, log |-> <<>>]

\* The arguments of a call of get_chunker; none before there is a call.
Args(file_path, chunk_size, overlap) ==
  [file_path |-> file_path, chunk_size |-> chunk_size, overlap |-> overlap]

NoArgs == Args(<<>>, 0, 0)

(***************************************************************************)
(* The state: the strategy instance, the frame of its call of chunk(), and *)
(* the number of calls of chunk() made on the instance so far; the frame   *)
(* of process_zip and the LocalDBManager it uses; the arguments of the     *)
(* call of get_chunker under study.                                        *)
(***************************************************************************)
VARIABLES self, call, ncalls, proc, db, args, rsm, remote

storeVars == <<proc, db, args, rsm, remote>>

vars == <<self, call, ncalls, proc, db, args, rsm, remote>>

Init ==
  /\ self = NoChunker
  /\ call = IdleFrame
  /\ ncalls = 0
  /\ proc = NoProcess
  /\ db = NoDatabase
  /\ args = NoArgs
  /\ rsm = NoSync
  /\ remote = NoRemote

\* chunker = get_chunker(file_path, chunk_size, overlap)
GetChunker ==
  /\ self = NoChunker
  /\ \E file_path \in Paths, cfg \in Configs :
       self' = get_chunker(file_path, cfg[1], cfg[2])
  /\ UNCHANGED <<call, ncalls, storeVars>>

\* chunks = chunker.chunk(content, file_path), on the new instance
CallChunk ==
  /\ self # NoChunker
  /\ call.pc = "idle"
  /\ \E file_path \in Paths, content \in Contents(self.cls) :
       /\ get_chunker(file_path, self.chunk_size, self.overlap) = self
       /\ call' = Begin(self, content, file_path)
  /\ ncalls' = ncalls + 1
  /\ UNCHANGED <<self, storeVars>>

\* ChunkAgain with the list of chunks held by the instance and not emptied
\* at the entry of chunk()
ChunkAgainKeepingChunks ==
  /\ call.pc = "done"
  /\ ncalls < MaxCalls
  /\ \E file_path \in Paths, content \in ReuseContents(self.cls) :
       /\ get_chunker(file_path, self.chunk_size, self.overlap) = self
       /\ call' = [Begin(self, content, file_path) EXCEPT
                     !.chunks = call.chunks, !.trace = call.trace]
  /\ ncalls' = ncalls + 1
  /\ UNCHANGED <<self, storeVars>>

\* chunker.chunk(content, file_path) again, on an instance that has returned
ChunkAgain ==
  /\ call.pc = "done"
  /\ ncalls < MaxCalls
  /\ \E file_path \in Paths, content \in ReuseContents(self.cls) :
       /\ get_chunker(file_path, self.chunk_size, self.overlap) = self
       /\ call' = Begin(self, content, file_path)
  /\ ncalls' = ncalls + 1
  /\ UNCHANGED <<self, storeVars>>

\* The first call of a run of calls on one instance.
CallChunkFirst ==
  /\ self # NoChunker
  /\ call.pc = "idle"
  /\ \E file_path \in Paths, content \in ReuseContents(self.cls) :
       /\ get_chunker(file_path, self.chunk_size, self.overlap) = self
       /\ call' = Begin(self, content, file_path)
  /\ ncalls' = ncalls + 1
  /\ UNCHANGED <<self, storeVars>>

SectionStep ==
  /\ call.pc = "sections"
  /\ call' = MarkdownSection(self, call)
  /\ UNCHANGED <<self, ncalls, storeVars>>

ParagraphStep ==
  /\ call.pc = "paragraphs"
  /\ call' = MarkdownParagraph(self, call)
  /\ UNCHANGED <<self, ncalls, storeVars>>

PositionStep ==
  /\ call.pc = "positions"
  /\ call' = CodePosition(self, call)
  /\ UNCHANGED <<self, ncalls, storeVars>>

LineStep ==
  /\ call.pc = "lines"
  /\ call' = CodeLine(self, call)
  /\ UNCHANGED <<self, ncalls, storeVars>>

BlockStep ==
  /\ call.pc = "blocks"
  /\ call' = CodeBlock(self, call)
  /\ UNCHANGED <<self, ncalls, storeVars>>

SentenceStep ==
  /\ call.pc = "sentences"
  /\ call' = TextSentence(self, call)
  /\ UNCHANGED <<self, ncalls, storeVars>>

Steps ==
  \/ SectionStep
  \/ ParagraphStep
  \/ PositionStep
  \/ LineStep
  \/ BlockStep
  \/ SentenceStep

Next == GetChunker \/ CallChunk \/ Steps

Spec == Init /\ [][Next]_vars

\* One instance reused for call after call.
NextReuse == GetChunker \/ CallChunkFirst \/ ChunkAgain \/ Steps

SpecReuse == Init /\ [][NextReuse]_vars

(***************************************************************************)
(* process_zip and LocalDBManager.                                         *)
(***************************************************************************)
\* The numbers of sections of the archives' files: one, two, and around each
\* multiple of batch_size up to MaxBatches.
Sizes ==
  {1, 2} \cup {b * batch_size + d : b \in 1 .. MaxBatches, d \in {-1, 0, 1}}

\* The archives: no file, a skipped file, one file of any size whose headings
\* all differ or repeat the first two, and two files whose paths differ in
\* '/' and '_' or in more.
Archives ==
  {<<>>, <<ZipFile(PathDotX, HeadingA)>>, <<ZipFile(PathXY, <<SP, NL>>)>>}
    \cup {<<ZipFile(PathXY, HeadingLines(n, n))>> : n \in Sizes}
    \cup {<<ZipFile(PathXY, HeadingLines(n, 2))>> : n \in Sizes}
    \cup {<<ZipFile(PathXY, HeadingLines(n, n)), ZipFile(path, HeadingA)>> :
             n \in {1, batch_size}, path \in {PathX_Y, PathZ}}

\* The entries of a batch as a collection stores them.
RecordsOf(batch) ==
  [k \in 1 .. Len(batch.ids) |->
     [id |-> batch.ids[k], document |-> batch.documents[k],
      metadata |-> batch.metadatas[k], embedding |-> batch.embeddings[k]]]

\* collection.add raises when an id occurs twice among the ids it is given.
HasDuplicates(ids) == Cardinality({ids[k] : k \in 1 .. Len(ids)}) < Len(ids)

\* The collection after collection.add(batch): an entry whose id the
\* collection holds already is left as it is.
Stored(records, batch) ==
  LET held(r) == \E k \in 1 .. Len(records) : records[k].id = r.id
  IN records \o SelectSeq(RecordsOf(batch), LAMBDA r : ~held(r))

\* collection.get(include=["metadatas", "documents", "embeddings"])
GetResults(records) ==
  Results({"ids", "documents", "metadatas", "embeddings"},
          [k \in 1 .. Len(records) |-> records[k].id],
          [k \in 1 .. Len(records) |-> records[k].document],
          [k \in 1 .. Len(records) |-> records[k].metadata],
          [k \in 1 .. Len(records) |-> records[k].embedding])

\* process_zip up to the embeddings: the chunks of every file of the archive,
\* sys.exit(1) when there is none, else one embedding for each chunk.
ProcessZip ==
  /\ proc.pc = "idle"
  /\ self = NoChunker
  /\ \E files \in Archives, verbose \in BOOLEAN,
        reset_remote \in BOOLEAN, reset_all_remote \in BOOLEAN :
       LET all_chunks == AllChunks(files)
           texts == [k \in 1 .. Len(all_chunks) |-> all_chunks[k].content]
           p == [NoProcess EXCEPT !.files = files, !.verbose = verbose,
                                  !.reset_remote = reset_remote,
                                  !.reset_all_remote = reset_all_remote,
                                  !.all_chunks = all_chunks]
       IN proc' = IF Len(all_chunks) = 0
                  THEN [p EXCEPT !.pc = "exit"]
                  ELSE [p EXCEPT !.pc = "embedded",
                                 !.embeddings = embed_batch(texts, TRUE, verbose)]
  /\ UNCHANGED <<self, call, ncalls, db, args, rsm, remote>>

\* db_manager.create_database(): the collection is there, or an exception
\* was caught, False is returned and process_zip exits.
CreateDatabase ==
  /\ proc.pc = "embedded"
  /\ \/ /\ db' = [db EXCEPT !.client = TRUE, !.collection = TRUE]
        /\ proc' = [proc EXCEPT !.pc = "created"]
     \/ /\ \E client \in BOOLEAN : db' = [db EXCEPT !.client = client]
        /\ proc' = [proc EXCEPT !.pc = "exit"]
  /\ UNCHANGED <<self, call, ncalls, args, rsm, remote>>

\* add_chunks up to its loop: 0 without a collection, else the three lists.
AddChunksEntry(d, chunks, embeddings) ==
  IF ~d.collection
  THEN [d EXCEPT !.call = [NoAddChunks EXCEPT !.pc = "returned", !.result = 0]]
  ELSE [d EXCEPT !.call =
          [pc |-> IF Len(chunks) = 0 THEN "returned" ELSE "batches",
           ids |-> [k \in 1 .. Len(chunks) |-> unique_id(chunks[k])],
           documents |-> [k \in 1 .. Len(chunks) |-> chunks[k].content],
           metadatas |-> [k \in 1 .. Len(chunks) |->
                            [source_file |-> chunks[k].source_file]
                              @@ chunks[k].metadata],
           embeddings |-> embeddings,
           i |-> 0, total_added |-> 0, result |-> 0]]

\* chunks_added = db_manager.add_chunks(all_chunks, embeddings), entered
AddChunksBegin ==
  /\ proc.pc = "created"
  /\ db.call.pc = "idle"
  /\ db' = AddChunksEntry(db, proc.all_chunks, proc.embeddings)
  /\ UNCHANGED <<self, call, ncalls, proc, args, rsm, remote>>

\* The batch of one iteration of `for i in range(0, len(ids), batch_size)`
BatchAt(c, i) ==
  [ids |-> PySlice(c.ids, i, i + batch_size),
   documents |-> PySlice(c.documents, i, i + batch_size),
   metadatas |-> PySlice(c.metadatas, i, i + batch_size),
   embeddings |-> PySlice(c.embeddings, i, i + batch_size)]

\* One iteration of the loop of add_chunks with collection.add succeeding;
\* after the last one total_added is returned.
BatchAdded(d) ==
  LET c == d.call
      batch == BatchAt(c, c.i)
      total == c.total_added + Len(batch.ids)
  IN [d EXCEPT
        !.records = Stored(@, batch),
        !.added = Append(@, [batch |-> batch, ok |-> TRUE]),
        !.call = IF c.i + batch_size >= Len(c.ids)
                 THEN [NoAddChunks EXCEPT !.pc = "returned", !.result = total]
                 ELSE [c EXCEPT !.i = c.i + batch_size, !.total_added = total]]

\* BatchFailed returning the count of the batches added before the failure.
BatchFailedReturningCount(d) ==
  [d EXCEPT
     !.added = Append(@, [batch |-> BatchAt(d.call, d.call.i), ok |-> FALSE]),
     !.call = [NoAddChunks EXCEPT !.pc = "returned",
                                  !.result = d.call.total_added]]

\* One iteration with collection.add raising: `except Exception`, return 0.
BatchFailed(d) ==
  [d EXCEPT
     !.added = Append(@, [batch |-> BatchAt(d.call, d.call.i), ok |-> FALSE]),
     !.call = [NoAddChunks EXCEPT !.pc = "returned", !.result = 0]]

AddBatch ==
  /\ db.call.pc = "batches"
  /\ \/ /\ ~HasDuplicates(BatchAt(db.call, db.call.i).ids)
        /\ db' = BatchAdded(db)
     \/ db' = BatchFailed(db)
  /\ UNCHANGED <<self, call, ncalls, proc, args, rsm, remote>>

\* add_chunks called on a manager whose create_database has not been called
\* or has returned False: self.collection is None.
AddChunksUninitialized ==
  /\ proc.pc = "idle"
  /\ self = NoChunker
  /\ db.call.pc = "idle"
  /\ \E files \in Archives, verbose \in BOOLEAN, client \in BOOLEAN :
       LET all_chunks == AllChunks(files)
           texts == [k \in 1 .. Len(all_chunks) |-> all_chunks[k].content]
           embeddings == embed_batch(texts, TRUE, verbose)
       IN /\ proc' = [NoProcess EXCEPT !.pc = "caller", !.files = files,
                                       !.verbose = verbose,
                                       !.all_chunks = all_chunks,
                                       !.embeddings = embeddings]
          /\ db' = AddChunksEntry([db EXCEPT !.client = client],
                                  all_chunks, embeddings)
  /\ UNCHANGED <<self, call, ncalls, args, rsm, remote>>

\* process_zip after add_chunks: exit when nothing was added, else
\* local_data = db_manager.get_all_chunks(), which is {} after an exception.
AfterAddChunks ==
  /\ proc.pc = "created"
  /\ db.call.pc = "returned"
  /\ \E local_data \in {GetResults(db.records), EmptyDict} :
       proc' = IF db.call.result > 0
               THEN [proc EXCEPT
                       !.chunks_added = db.call.result,
                       !.local_data = local_data,
                       !.pc = IF "ids" \in local_data.keys THEN "remote" ELSE "done"]
               ELSE [proc EXCEPT !.chunks_added = db.call.result, !.pc = "exit"]
  /\ db' = [db EXCEPT !.call = NoAddChunks]
  /\ UNCHANGED <<self, call, ncalls, args, rsm, remote>>

(***************************************************************************)
(* get_chunker on its own, for paths of every kind.                        *)
(***************************************************************************)
\* Paths with the strategy that the extension asks for: Markdown for .md,
\* .mdx, .markdown, Text for the ten data and configuration extensions, Code
\* for any other and for none, the letters of the extension in any case.
SelectorCases ==
  {
    << <<"a", ".", "m", "d">>, "MarkdownChunker" >>,
    << <<"a", ".", "M", "D">>, "MarkdownChunker" >>,
    << <<"a", ".", "m", "d", "x">>, "MarkdownChunker" >>,
    << <<"a", ".", "M", "a", "r", "k", "d", "o", "w", "n">>, "MarkdownChunker" >>,
    << <<"d", "/", "a", ".", "m", "a", "r", "k", "d", "o", "w", "n">>, "MarkdownChunker" >>,
    << <<"a", ".", "t", "x", "t">>, "TextChunker" >>,
    << <<"a", ".", "T", "X", "T">>, "TextChunker" >>,
    << <<"a", ".", "c", "s", "v">>, "TextChunker" >>,
    << <<"a", ".", "l", "o", "g">>, "TextChunker" >>,
    << <<"a", ".", "c", "o", "n", "f">>, "TextChunker" >>,
    << <<"a", ".", "i", "n", "i">>, "TextChunker" >>,
    << <<"a", ".", "c", "f", "g">>, "TextChunker" >>,
    << <<"a", ".", "y", "a", "m", "l">>, "TextChunker" >>,
    << <<"a", ".", "y", "m", "l">>, "TextChunker" >>,
    << <<"a", ".", "j", "s", "o", "n">>, "TextChunker" >>,
    << <<"a", ".", "T", "o", "m", "l">>, "TextChunker" >>,
    << <<"a", ".", "t", "o", "m", "l">>, "TextChunker" >>,
    << <<"a", ".", "p", "y">>, "CodeChunker" >>,
    << <<"a">>, "CodeChunker" >>,
    << <<"a", ".", "m", "d", "/", "b">>, "CodeChunker" >>,
    << <<"a", ".", "t", "x", "t", ".", "m", "d">>, "MarkdownChunker" >>,
    << <<"a", ".", "m", "d", ".", "p", "y">>, "CodeChunker" >>,
    << <<"a", ".", "r", "s", "t">>, "CodeChunker" >>,
    << <<"a", ".", "m", "d", "o", "w", "n">>, "CodeChunker" >>
  }

SelectorPaths == {c[1] : c \in SelectorCases}

ExpectedClass(file_path) == (CHOOSE c \in SelectorCases : c[1] = file_path)[2]

InitSelect ==
  /\ self = NoChunker
  /\ call = IdleFrame
  /\ ncalls = 0
  /\ proc = NoProcess
  /\ db = NoDatabase
  /\ rsm = NoSync
  /\ remote = NoRemote
  /\ \E file_path \in SelectorPaths, cfg \in Configs :
       args = Args(file_path, cfg[1], cfg[2])

\* chunker = get_chunker(file_path, config.chunk_size, config.chunk_overlap)
SelectChunker ==
  /\ self = NoChunker
  /\ self' = get_chunker(args.file_path, args.chunk_size, args.overlap)
  /\ UNCHANGED <<call, ncalls, storeVars>>

SpecSelect == InitSelect /\ [][SelectChunker]_vars

(***************************************************************************)
(* RemoteSyncManager and the remote server.                                *)
(***************************************************************************)
\* config.get_db_name(), and the name of another collection of the server
DbName == "db"
OtherName == "other"

\* The names that client.list_collections() returns.
Listed(r) == r.names \cup r.lingering

NoBatch == [ids |-> <<>>, documents |-> <<>>, metadatas |-> <<>>, embeddings |-> <<>>]

\* One call that changes the server, as the log keeps it: who issued it,
\* whether the collection was there, whether the call returned.
Op(by, op, name, r, ok, batch) ==
  [by |-> by, op |-> op, name |-> name, existed |-> name \in r.names,
   ok |-> ok, batch |-> batch]

\* The server after a call that raised.
Refused(r, by, op, name, batch) ==
  [r EXCEPT !.log = Append(@, Op(by, op, name, r, FALSE, batch))]

\* The server after client.delete_collection(name) has returned; the server
\* may go on listing the collection for a while.
Deleted(r, by, name, lingers) ==
  [r EXCEPT !.names = @ \ {name},
            !.lingering = IF lingers THEN @ \cup {name} ELSE @ \ {name},
            !.records = IF name = DbName THEN <<>> ELSE @,
            !.log = Append(@, Op(by, "delete", name, r, TRUE, NoBatch))]

\* The server after client.create_collection(name) has returned.
Created(r, by, name) ==
  [r EXCEPT !.names = @ \cup {name},
            !.lingering = @ \ {name},
            !.records = IF name = DbName THEN <<>> ELSE @,
            !.log = Append(@, Op(by, "create", name, r, TRUE, NoBatch))]

\* The server after collection.add(batch) has returned.
Added(r, by, batch) ==
  [r EXCEPT !.records = Stored(@, batch),
            !.log = Append(@, Op(by, "add", DbName, r, TRUE, batch))]

Outcome(r, raised, fault) == [remote |-> r, raised |-> raised, fault |-> fault]

\* client.delete_collection(name): it returns for a collection that is
\* there, unless the call fails on the way; it raises for one that is not.
DeleteOutcomes(r, by, name) ==
  IF name \in r.names
  THEN {Outcome(Deleted(r, by, name, lingers), FALSE, FALSE) : lingers \in BOOLEAN}
         \cup {Outcome(Refused(r, by, "delete", name, NoBatch), TRUE, TRUE)}
  ELSE {Outcome(Refused(r, by, "delete", name, NoBatch), TRUE, FALSE)}

\* client.create_collection(name): it raises for a collection that is there.
CreateOutcomes(r, by, name) ==
  IF name \notin r.names
  THEN {Outcome(Created(r, by, name), FALSE, FALSE),
        Outcome(Refused(r, by, "create", name, NoBatch), TRUE, TRUE)}
  ELSE {Outcome(Refused(r, by, "create", name, NoBatch), TRUE, FALSE)}

\* client.get_collection(name): it raises for a collection that is not there.
GetOutcomes(r, name) ==
  IF name \in r.names
  THEN {Outcome(r, FALSE, FALSE), Outcome(r, TRUE, TRUE)}
  ELSE {Outcome(r, TRUE, FALSE)}

\* collection.add(batch) on the collection db_name
AddOutcomes(r, by, batch) ==
  IF DbName \in r.names /\ ~HasDuplicates(batch.ids)
  THEN {Outcome(Added(r, by, batch), FALSE, FALSE),
        Outcome(Refused(r, by, "add", DbName, batch), TRUE, TRUE)}
  ELSE {Outcome(Refused(r, by, "add", DbName, batch), TRUE, FALSE)}

\* The loop of delete_all_collections over the collections of D.
RECURSIVE DeleteEach(_, _)
DeleteEach(r, D) ==
  IF D = {} THEN r
  ELSE LET name == IF DbName \in D THEN DbName ELSE CHOOSE x \in D : TRUE
       IN DeleteEach(Deleted(r, "delete_all", name, FALSE), D \ {name})

\* sync_manager.delete_all_collections(): connect, then delete every
\* collection listed; an exception ends it where it is.
DeleteAllCollections ==
  /\ proc.pc = "remote"
  /\ proc.reset_all_remote
  /\ \E connected \in BOOLEAN, D \in SUBSET remote.names :
       /\ ~connected => D = {}
       /\ remote' = DeleteEach(remote, D)
       /\ rsm' = [rsm EXCEPT !.client = connected]
  /\ proc' = [proc EXCEPT !.pc = "sync"]
  /\ UNCHANGED <<self, call, ncalls, db, args>>

Returned_(f, result, fault) ==
  [f EXCEPT !.pc = "returned", !.result = result, !.fault = @ \/ fault]

\* sync_collection up to its branch on the collection found on the server:
\* connect, collection_exists, and with reset_remote the first
\* delete_collection.
SyncBegin ==
  /\ rsm.pc = "idle"
  /\ proc.pc = "sync" \/ (proc.pc = "remote" /\ ~proc.reset_all_remote)
  /\ \E connected \in BOOLEAN, listed_ok \in BOOLEAN :
       LET exists == listed_ok /\ DbName \in Listed(remote)
           f == [NoSync EXCEPT !.client = connected,
                               !.reset_remote = proc.reset_remote,
                               !.collection_exists = exists,
                               !.existed = DbName \in remote.names,
                               !.fault = ~listed_ok]
       IN /\ rsm.client => connected
          /\ ~connected => listed_ok
          /\ IF ~connected
             THEN /\ rsm' = Returned_([f EXCEPT !.collection_exists = FALSE],
                                      "False", TRUE)
                  /\ UNCHANGED remote
             ELSE IF ~exists
             THEN rsm' = [f EXCEPT !.pc = "open"] /\ UNCHANGED remote
             ELSE IF proc.reset_remote
             THEN \E o \in DeleteOutcomes(remote, "sync", DbName) :
                    /\ remote' = o.remote
                    /\ rsm' = IF o.raised THEN Returned_(f, "raised", o.fault)
                              ELSE [f EXCEPT !.pc = "retry"]
             ELSE rsm' = [f EXCEPT !.pc = "conflict"] /\ UNCHANGED remote
  /\ proc' = [proc EXCEPT !.pc = "syncing"]
  /\ UNCHANGED <<self, call, ncalls, db, args>>

\* One iteration of `for attempt in range(max_retries)`: sleep, then
\* collection_exists; after the loop collection_exists = False and
\* action = "overwrite".
RetryStep ==
  /\ rsm.pc = "retry"
  /\ \E settles \in BOOLEAN, listed_ok \in BOOLEAN :
       LET r == IF settles THEN [remote EXCEPT !.lingering = @ \ {DbName}]
                ELSE remote
           still == listed_ok /\ DbName \in Listed(r)
           f == [rsm EXCEPT !.attempt = @ + 1, !.fault = @ \/ ~listed_ok]
       IN /\ remote' = r
          /\ rsm' = IF ~still \/ rsm.attempt + 1 = max_retries
                    THEN [f EXCEPT !.collection_exists = FALSE,
                                   !.action = "overwrite", !.pc = "act"]
                    ELSE f
  /\ UNCHANGED <<self, call, ncalls, proc, db, args>>

\* What console.input can return at the two prompts of handle_conflict.
ChoiceInputs == { <<"1">>, <<"2">>, <<"3">>, <<SP, "2", SP>>, <<"4">>, <<"y">>, <<>> }
ConfirmInputs == { <<"y">>, <<"Y">>, <<SP, "y">>, <<"n">>, <<"y", "e", "s">>, <<>> }

\* confirm before a confirmation has been read
Unread == <<"unread">>

\* ConflictPrompt taking every answer but "n" for a confirmation.
ConflictPromptUnlessNo ==
  /\ rsm.pc = "conflict"
  /\ \E choice_in \in ChoiceInputs, confirm_in \in ConfirmInputs :
       LET choice == Strip(choice_in)
           confirm == Lower(Strip(confirm_in))
       IN rsm' =
            CASE choice = <<"1">> ->
                   [rsm EXCEPT !.choice = choice, !.confirm = Unread,
                               !.action = "skip", !.pc = "act"]
              [] choice = <<"2">> ->
                   [rsm EXCEPT !.choice = choice, !.confirm = confirm,
                               !.action = IF confirm # <<"n">> THEN "overwrite"
                                          ELSE "skip",
                               !.pc = "act"]
              [] choice = <<"3">> ->
                   [rsm EXCEPT !.choice = choice, !.confirm = confirm,
                               !.action = IF confirm # <<"n">> THEN "merge"
                                          ELSE "skip",
                               !.pc = "act"]
              [] OTHER ->
                   [rsm EXCEPT !.choice = choice, !.confirm = Unread]
  /\ UNCHANGED <<self, call, ncalls, proc, db, args, remote>>

\* One iteration of `while True` of handle_conflict: the choice, and for "2"
\* and "3" the confirmation; the action is returned or the prompt repeated.
ConflictPrompt ==
  /\ rsm.pc = "conflict"
  /\ \E choice_in \in ChoiceInputs, confirm_in \in ConfirmInputs :
       LET choice == Strip(choice_in)
           confirm == Lower(Strip(confirm_in))
       IN rsm' =
            CASE choice = <<"1">> ->
                   [rsm EXCEPT !.choice = choice, !.confirm = Unread,
                               !.action = "skip", !.pc = "act"]
              [] choice = <<"2">> ->
                   [rsm EXCEPT !.choice = choice, !.confirm = confirm,
                               !.action = IF confirm = <<"y">> THEN "overwrite"
                                          ELSE "skip",
                               !.pc = "act"]
              [] choice = <<"3">> ->
                   [rsm EXCEPT !.choice = choice, !.confirm = confirm,
                               !.action = IF confirm = <<"y">> THEN "merge"
                                          ELSE "skip",
                               !.pc = "act"]
              [] OTHER ->
                   [rsm EXCEPT !.choice = choice, !.confirm = Unread]
  /\ UNCHANGED <<self, call, ncalls, proc, db, args, remote>>

\* sync_collection on the action: return False for "skip",
\* delete_collection for "overwrite", nothing for "merge".
ActOnCollection ==
  /\ rsm.pc = "act"
  /\ CASE rsm.action = "skip" ->
            rsm' = Returned_(rsm, "False", FALSE) /\ UNCHANGED remote
       [] rsm.action = "overwrite" ->
            \E o \in DeleteOutcomes(remote, "sync", DbName) :
              /\ remote' = o.remote
              /\ rsm' = IF o.raised THEN Returned_(rsm, "raised", o.fault)
                        ELSE [rsm EXCEPT !.pc = "open"]
       [] rsm.action = "merge" ->
            rsm' = [rsm EXCEPT !.pc = "open"] /\ UNCHANGED remote
  /\ UNCHANGED <<self, call, ncalls, proc, db, args>>

\* sync_collection: create_collection or get_collection; an exception is
\* caught and False returned; with no id True is returned at once.
OpenCollection ==
  /\ rsm.pc = "open"
  /\ \E o \in IF ~rsm.collection_exists \/ rsm.action = "overwrite"
             THEN CreateOutcomes(remote, "sync", DbName)
             ELSE GetOutcomes(remote, DbName) :
       /\ remote' = o.remote
       /\ rsm' = IF o.raised THEN Returned_(rsm, "False", o.fault)
                 ELSE IF Len(proc.local_data.ids) = 0
                 THEN Returned_(rsm, "True", FALSE)
                 ELSE [rsm EXCEPT !.pc = "batches", !.i = 0, !.total_added = 0]
  /\ UNCHANGED <<self, call, ncalls, proc, db, args>>

None == "None"

\* list(e) for an embedding e
ToList(e) == [vector_of |-> e.vector_of]

\* The batch of one iteration of the loop of sync_collection.
SyncBatchAt(local_data, i) ==
  [ids |-> PySlice(local_data.ids, i, i + batch_size),
   documents |-> IF Len(local_data.documents) > 0
                 THEN PySlice(local_data.documents, i, i + batch_size)
                 ELSE None,
   metadatas |-> IF Len(local_data.metadatas) > 0
                 THEN PySlice(local_data.metadatas, i, i + batch_size)
                 ELSE None,
   embeddings |-> IF Len(local_data.embeddings) > 0
                  THEN LET batch_embeds ==
                             PySlice(local_data.embeddings, i, i + batch_size)
                       IN [k \in 1 .. Len(batch_embeds) |-> ToList(batch_embeds[k])]
                  ELSE None]

\* One iteration of `for i in range(0, len(ids), batch_size)` of
\* sync_collection: collection.add; an exception is caught and False
\* returned; after the last batch True is returned.
SyncBatch ==
  /\ rsm.pc = "batches"
  /\ LET batch == SyncBatchAt(proc.local_data, rsm.i)
     IN \E o \in AddOutcomes(remote, "sync", batch) :
          /\ remote' = o.remote
          /\ rsm' = IF o.raised THEN Returned_(rsm, "False", o.fault)
                    ELSE IF rsm.i + batch_size >= Len(proc.local_data.ids)
                    THEN Returned_([rsm EXCEPT !.total_added = @ + Len(batch.ids)],
                                   "True", FALSE)
                    ELSE [rsm EXCEPT !.i = @ + batch_size,
                                     !.total_added = @ + Len(batch.ids)]
  /\ UNCHANGED <<self, call, ncalls, proc, db, args>>

\* process_zip after sync_collection: db_manager.close(); an exception of
\* sync_collection goes up to main, which exits.
AfterSync ==
  /\ proc.pc = "syncing"
  /\ rsm.pc = "returned"
  /\ IF rsm.result = "raised"
     THEN proc' = [proc EXCEPT !.pc = "exit"] /\ UNCHANGED db
     ELSE /\ proc' = [proc EXCEPT !.synced = (rsm.result = "True"), !.pc = "done"]
          /\ db' = [db EXCEPT !.client = FALSE, !.collection = FALSE]
  /\ UNCHANGED <<self, call, ncalls, args, rsm, remote>>

\* The server at the start holds any of the two collections.
InitStore ==
  /\ self = NoChunker
  /\ call = IdleFrame
  /\ ncalls = 0
  /\ proc = NoProcess
  /\ db = NoDatabase
  /\ args = NoArgs
  /\ rsm = NoSync
  /\ \E names \in SUBSET {DbName, OtherName} :
       remote = [NoRemote EXCEPT !.names = names]

NextStore ==
  \/ ProcessZip
  \/ CreateDatabase
  \/ AddChunksBegin
  \/ AddBatch
  \/ AfterAddChunks
  \/ AddChunksUninitialized
  \/ DeleteAllCollections
  \/ SyncBegin
  \/ RetryStep
  \/ ConflictPrompt
  \/ ActOnCollection
  \/ OpenCollection
  \/ SyncBatch
  \/ AfterSync

SpecStore == InitStore /\ [][NextStore]_vars

(***************************************************************************)
(* Properties.                                                             *)
(***************************************************************************)
Returned == call.pc = "done"

ChunkIndices == 1 .. Len(call.chunks)

\* The text of a placed unit.
UnitText(pl) == Slice(call.content, pl.lo, pl.hi)

\* C1: every chunk in the sequence built by chunk(), for each of the three
\* strategies, every content, every chunk_size >= 1 and overlap >= 0, has a
\* content that is not empty after trimming.
C1_NoBlankChunk ==
  \A j \in ChunkIndices : Strip(call.chunks[j].content) # <<>>

\* A chunk that is one single logical unit and nothing else: one paragraph,
\* one line or one sentence, with no text carried over before it.
SingleUnit(j) ==
  LET t == call.trace[j]
  IN /\ Len(t.placed) = 1
     /\ t.placed[1].off = 0
     /\ CASE t.kind = "section" ->
               Len(SplitParagraphs(call.content, t.placed[1].lo, t.placed[1].hi)) = 1
          [] t.kind \in {"segment", "tail"} ->
               Len(SplitLines(call.content, t.placed[1].lo, t.placed[1].hi)) = 1
          [] OTHER -> TRUE

\* C2 as stated: with overlap < chunk_size, every chunk's content is at most
\* chunk_size long unless the chunk is one single logical unit that is itself
\* longer than chunk_size.
C2_BoundedUnlessSingleUnit ==
  self.overlap < self.chunk_size =>
    \A j \in ChunkIndices :
      \/ Len(call.chunks[j].content) <= self.chunk_size
      \/ /\ SingleUnit(j)
         /\ Len(UnitText(call.trace[j].placed[1])) > self.chunk_size

PackedKinds == {"paragraphs", "lines", "blocks", "sentences"}

\* C2 as amended: with overlap < chunk_size, a chunk that packs two or more
\* units has a trimmed content of at most chunk_size characters, a Markdown
\* section emitted whole is at most 2 * chunk_size long, and a Code segment
\* emitted whole before the tail is at most chunk_size long.  (A buffer
\* restarted at a flush, holding the carried text and one unit, and the Code
\* tail are not bounded by chunk_size.)
C2_PackedBounded ==
  self.overlap < self.chunk_size =>
    \A j \in ChunkIndices :
      LET t == call.trace[j]
          n == Len(Strip(call.chunks[j].content))
      IN /\ (t.kind \in PackedKinds /\ Len(t.placed) >= 2) => n <= self.chunk_size
         /\ t.kind = "section" => n <= 2 * self.chunk_size
         /\ t.kind = "segment" => n <= self.chunk_size

\* C2, witness: a returned chunk that packs two units and is exactly
\* chunk_size long, and a chunk of carried text and one short unit that is
\* longer than chunk_size, with overlap < chunk_size.
C2_Witness ==
  /\ Returned
  /\ self.overlap < self.chunk_size
  /\ \E j \in ChunkIndices :
       /\ call.trace[j].kind \in PackedKinds
       /\ Len(call.trace[j].placed) >= 2
       /\ Len(call.chunks[j].content) = self.chunk_size
  /\ \E j \in ChunkIndices :
       /\ Len(call.trace[j].placed) = 1
       /\ Len(UnitText(call.trace[j].placed[1])) < self.chunk_size
       /\ Len(call.chunks[j].content) > self.chunk_size

\* C3: chunk() returns the empty sequence for a content that is empty or all
\* whitespace, and at least one chunk for any other content.
C3_EmptyIffBlank ==
  Returned => (call.chunks = <<>> <=> IsBlank(call.content))

\* C3, witness: a call of CodeChunker.chunk that has returned no chunk for a
\* content of three or more whitespace characters.
C3_Witness ==
  /\ Returned
  /\ call.chunks = <<>>
  /\ Len(call.content) >= 3
  /\ self.cls = "CodeChunker"

\* C4: after get_chunker or a constructor has returned an instance, its
\* overlap is strictly less than its chunk_size.
C4_OverlapBelowChunkSize ==
  self # NoChunker => self.overlap < self.chunk_size

Running == call.pc \notin {"idle", "done"}

\* The number of steps chunk() can still take from frame c, at most: the
\* iterations left in the loop at c.pc and the step after it, and for a
\* nested loop the iterations left in the outer loop, each of which takes at
\* most len(content) + 3 steps (a piece of content has at most
\* len(content) + 1 units).
Remaining(c) ==
  LET w == Len(c.content) + 3
  IN CASE c.pc \in {"idle", "done"} -> 0
       [] c.pc \in {"sections", "positions"} -> 1 + (Len(c.seq) - c.i) * w
       [] c.pc \in {"paragraphs", "lines"} ->
            1 + (Len(c.seq) - c.i - 1) * w + (Len(c.units) - c.k) + 1
       [] c.pc \in {"blocks", "sentences"} -> (Len(c.units) - c.k) + 1

\* The positions at which a step of a handler is enabled: the guards of
\* the six step actions.
HandlerPcs == {"sections", "paragraphs", "positions", "lines", "blocks", "sentences"}

\* C5: every call of chunk() terminates, for every content and every
\* configuration, overlap >= chunk_size included: every step of a running
\* call leads to a position from which a further step is possible or to the
\* return, every step strictly lowers the number of steps left, which never
\* falls below zero, and an iteration of a packing loop moves on to the next
\* unit of the same sequence (no unit is processed again).
C5_Terminates ==
  [][Running =>
       /\ call'.pc \in HandlerPcs \cup {"done"}
       /\ Remaining(call') < Remaining(call)
       /\ Remaining(call') >= 0
       /\ (call.pc \in PackedKinds /\ call.k < Len(call.units)) =>
            /\ call'.pc = call.pc
            /\ call'.units = call.units
            /\ call'.k = call.k + 1]_vars

\* C5, witness: a call that has returned after two or more flushes of a
\* packing loop under overlap >= chunk_size.
C5_Witness ==
  /\ Returned
  /\ self.overlap >= self.chunk_size
  /\ \E j \in ChunkIndices :
       /\ j + 1 \in ChunkIndices
       /\ call.trace[j].kind \in PackedKinds
       /\ call.trace[j + 1].kind = call.trace[j].kind
       /\ call.trace[j + 1].run = call.trace[j].run
       /\ call.trace[j + 1].placed[1].off > 0

IsPrefix(p, s) == Len(p) <= Len(s) /\ SubSeq(s, 1, Len(p)) = p

IsInfix(p, s) == \E o \in 0 .. Len(s) - Len(p) : Slice(s, o, o + Len(p)) = p

\* Chunks j and j + 1 were flushed one after the other in one run of the
\* packing loop of the given kinds.
ConsecutiveInRun(j, kinds) ==
  /\ j \in ChunkIndices
  /\ j + 1 \in ChunkIndices
  /\ call.trace[j].kind \in kinds
  /\ call.trace[j + 1].kind = call.trace[j].kind
  /\ call.trace[j + 1].run = call.trace[j].run

\* The loops that seed the next buffer with current_chunk[-self.overlap:].
PackerKinds == {"paragraphs", "blocks", "sentences"}

\* C6: for two chunks flushed one after the other in one run of the Markdown
\* paragraph loop, the Code paragraph fallback or the sentence loop: with
\* overlap > 0 the last overlap characters of the first one's buffer before
\* trimming (the whole buffer when it is shorter) are a prefix of the second
\* one's buffer before trimming; with overlap = 0 the second buffer starts
\* empty, its first unit at offset 0.
C6_OverlapContinuity ==
  \A j \in ChunkIndices :
    ConsecutiveInRun(j, PackerKinds) =>
      IF self.overlap > 0
      THEN IsPrefix(LastN(call.trace[j].buf, self.overlap), call.trace[j + 1].buf)
      ELSE call.trace[j + 1].placed[1].off = 0

\* C6, witness: two chunks flushed one after the other in one paragraph run
\* with overlap > 0, the first buffer longer than overlap.
C6_Witness ==
  /\ self.overlap > 0
  /\ \E j \in ChunkIndices :
       /\ ConsecutiveInRun(j, {"paragraphs"})
       /\ Len(call.trace[j].buf) > self.overlap
       /\ call.trace[j + 1].placed[1].off > 0

ScenarioABC == <<"A", DOT, SP, "B", DOT, SP, "C", DOT>>

ChunkContents == [j \in ChunkIndices |-> call.chunks[j].content]

\* C7 as stated: TextChunker with overlap = 0 returns chunks of two or more
\* sentences that are strictly shorter than chunk_size, and for "A. B. C."
\* with chunk_size = 5 the three chunks "A.", "B.", "C.".
C7_FlushBeforeReaching ==
  (Returned /\ self.cls = "TextChunker" /\ self.overlap = 0) =>
    /\ \A j \in ChunkIndices :
         Len(call.trace[j].placed) >= 2 =>
           Len(call.chunks[j].content) < self.chunk_size
    /\ (call.content = ScenarioABC /\ self.chunk_size = 5) =>
         ChunkContents = << <<"A", DOT>>, <<"B", DOT>>, <<"C", DOT>> >>

\* C7 as amended: TextChunker with overlap = 0 flushes before appending a
\* sentence when the buffer's length plus the sentence's length, the joining
\* blank not counted, reaches chunk_size, so a chunk of two or more sentences
\* is at most chunk_size long; "A. B. C." with chunk_size = 5 yields exactly
\* the two chunks "A. B." and "C.", each tagged chunk_type = text.
C7_FlushAtBufferPlusSentence ==
  (Returned /\ self.cls = "TextChunker" /\ self.overlap = 0) =>
    /\ \A j \in ChunkIndices :
         /\ call.chunks[j].metadata = [chunk_type |-> "text"]
         /\ Len(call.trace[j].placed) >= 2 =>
              Len(call.chunks[j].content) <= self.chunk_size
    /\ (call.content = ScenarioABC /\ self.chunk_size = 5) =>
         ChunkContents = << <<"A", DOT, SP, "B", DOT>>, <<"C", DOT>> >>

\* C7, witness: TextChunker(5, 0).chunk("A. B. C.") has returned, its first
\* chunk of two sentences exactly chunk_size long.
C7_Witness ==
  /\ Returned
  /\ self = Chunker("TextChunker", 5, 0)
  /\ call.content = ScenarioABC
  /\ Len(call.trace[1].placed) = 2
  /\ Len(call.chunks[1].content) = self.chunk_size

\* The unit of placement pl stands whole at its offset in the buffer buf.
StandsWhole(pl, buf) ==
  Slice(buf, pl.off, pl.off + (pl.hi - pl.lo)) = UnitText(pl)

\* The run of the packing loop the call is in.
CurrentRun == IF call.pc \in {"paragraphs", "lines"} THEN call.i ELSE 0

\* The ranges of the units placed in the run so far, buffer after buffer.
RECURSIVE PlacedInRun(_)
PlacedInRun(j) ==
  IF j > Len(call.trace) THEN [n \in 1 .. Len(call.placed) |->
                                  <<call.placed[n].lo, call.placed[n].hi>>]
  ELSE LET t == call.trace[j]
       IN (IF t.kind = call.pc /\ t.run = CurrentRun
           THEN [n \in 1 .. Len(t.placed) |-> <<t.placed[n].lo, t.placed[n].hi>>]
           ELSE <<>>) \o PlacedInRun(j + 1)

\* The units the loop has consumed so far: units[:k], for the fallback each
\* block stripped and the blank ones left out.
RECURSIVE ConsumedUnits(_)
ConsumedUnits(n) ==
  IF n = 0 THEN <<>>
  ELSE LET u == call.units[n]
           b == StripRange(call.content, u[1], u[2])
       IN ConsumedUnits(n - 1) \o
            (IF call.pc = "blocks"
             THEN IF b[1] = b[2] THEN <<>> ELSE <<b>>
             ELSE <<u>>)

\* C8: in every packing pass each unit consumed, however long, has been
\* appended whole to exactly one buffer as new content, in order; it stands
\* unbroken at its offset in that buffer, and in the chunk flushed from the
\* buffer, less only the whitespace that trimming takes off the chunk's ends.
C8_UnitsWhole ==
  /\ \A n \in 1 .. Len(call.placed) : StandsWhole(call.placed[n], call.current_chunk)
  /\ \A j \in ChunkIndices :
       \A n \in 1 .. Len(call.trace[j].placed) :
         /\ StandsWhole(call.trace[j].placed[n], call.trace[j].buf)
         /\ IsInfix(Strip(UnitText(call.trace[j].placed[n])), call.chunks[j].content)
  /\ call.pc \in PackedKinds => PlacedInRun(1) = ConsumedUnits(call.k)

\* C8, witness: a returned chunk of _split_large_chunk that holds, after
\* carried lines, a line longer than chunk_size.
C8_Witness ==
  /\ Returned
  /\ \E j \in ChunkIndices :
       /\ call.trace[j].kind = "lines"
       /\ \E n \in 1 .. Len(call.trace[j].placed) :
            /\ call.trace[j].placed[n].off > 0
            /\ Len(UnitText(call.trace[j].placed[n])) > self.chunk_size

\* C9: the chunks are in source order: chunk j is the one cut from the j-th
\* flushed buffer, and the offset in content of the first unit newly placed
\* in a chunk (the start of a piece emitted whole) never decreases from a
\* chunk to the next.
C9_SourceOrder ==
  /\ Len(call.trace) = Len(call.chunks)
  /\ \A j \in ChunkIndices :
       /\ call.trace[j].placed # <<>>
       /\ Strip(call.chunks[j].content) = Strip(call.trace[j].buf)
       /\ j + 1 \in ChunkIndices =>
            call.trace[j].placed[1].lo <= call.trace[j + 1].placed[1].lo

\* C9, witness: a returned call of CodeChunker.chunk with overlap > 0 whose
\* chunks come from a segment emitted whole, a line-packed segment with
\* carried lines, and the tail.
C9_Witness ==
  /\ Returned
  /\ self.overlap > 0
  /\ \E j \in ChunkIndices : call.trace[j].kind = "segment"
  /\ \E j \in ChunkIndices :
       call.trace[j].kind = "lines" /\ call.trace[j].placed[1].off > 0
  /\ call.trace[Len(call.trace)].kind = "tail"

\* C10: chunk() leaves the instance's chunk_size and overlap as they are, and
\* a call that returns, after any number of earlier calls on the instance,
\* returns what chunk() returns on an instance newly made by get_chunker
\* with the same configuration.
C10_NoRetainedState ==
  [][/\ self # NoChunker => self' = self
     /\ (call'.pc = "done") =>
          call'.chunks =
            ChunkResult(get_chunker(call'.file_path, self.chunk_size, self.overlap),
                        call'.content, call'.file_path)]_vars

\* C10, witness: the last of MaxCalls calls on one instance has returned two
\* or more chunks.
C10_Witness ==
  /\ Returned
  /\ ncalls = MaxCalls
  /\ Len(call.chunks) >= 2

\* C11: the content of every chunk of a call, of any of the three strategies,
\* is trimmed: it equals its own strip(), also for the chunks flushed inside
\* the loops of _newline_fallback and _split_large_chunk.
C11_ContentTrimmed ==
  \A j \in ChunkIndices : Strip(call.chunks[j].content) = call.chunks[j].content

\* C12: the ids that LocalDBManager.add_chunks has built for the chunks of
\* one call are pairwise different, chunk by chunk.
C12_UniqueIds ==
  db.call.pc = "batches" =>
    Cardinality({db.call.ids[k] : k \in 1 .. Len(db.call.ids)}) = Len(db.call.ids)

\* C13: get_chunker returns, for every path, an instance: a MarkdownChunker
\* for the extensions .md, .mdx, .markdown, a TextChunker for the ten data
\* and configuration extensions, a CodeChunker for any other extension and
\* for none, whatever the case of the letters; the instance carries the
\* chunk_size and the overlap of the call.
C13_SelectedByExtension ==
  self # NoChunker =>
    self = Chunker(ExpectedClass(args.file_path), args.chunk_size, args.overlap)

\* C13, witness: a MarkdownChunker returned for a path ending in ".MD".
C13_Witness ==
  /\ self.cls = "MarkdownChunker"
  /\ args.file_path = <<"a", ".", "M", "D">>
  /\ self.chunk_size = args.chunk_size
  /\ self.overlap = args.overlap

\* The lengths of the lines ls added up, the newlines between them left out.
RECURSIVE LinesLength(_)
LinesLength(ls) == IF ls = <<>> THEN 0 ELSE Len(ls[1]) + LinesLength(Tail(ls))

\* The buffer next starts with the last m lines of the buffer flushed, whole
\* and in their order, each followed by a newline, and its first new line
\* comes right after them.
CarriesLines(flushed, next, m) ==
  LET chunk_lines == LinesOf(flushed.buf)
      carried == SubSeq(chunk_lines, Len(chunk_lines) - m + 1, Len(chunk_lines))
      seed == JoinLines(carried) \o <<NL>>
  IN /\ IsPrefix(seed, next.buf)
     /\ next.placed[1].off = Len(seed)
     /\ LinesLength(carried) <= self.overlap

EntryOf(idx) ==
  LET chunk == proc.all_chunks[idx]
  IN [id |-> unique_id(chunk),
      document |-> chunk.content,
      metadata |-> [source_file |-> chunk.source_file] @@ chunk.metadata,
      embedding |-> Encode(chunk.content)]

\* Position k of the four lists of a batch, taken together.
EntryAt(batch, k) ==
  [id |-> batch.ids[k], document |-> batch.documents[k],
   metadata |-> batch.metadatas[k], embedding |-> batch.embeddings[k]]

\* The four lists of a batch have one length.
SameLength(batch) ==
  /\ Len(batch.documents) = Len(batch.ids)
  /\ Len(batch.metadatas) = Len(batch.ids)
  /\ Len(batch.embeddings) = Len(batch.ids)

\* The batches that sync_collection has passed to collection.add, in order.
SyncAdds == SelectSeq(remote.log, LAMBDA e : e.by = "sync" /\ e.op = "add")

\* The b-th batch of a loop over slices of batch_size holds the chunks from
\* index (b - 1) * batch_size + 1 on, each at its own position.
BatchAligned(batch, b) ==
  /\ SameLength(batch)
  /\ \A k \in 1 .. Len(batch.ids) :
       /\ (b - 1) * batch_size + k <= Len(proc.all_chunks)
       /\ EntryAt(batch, k) = EntryOf((b - 1) * batch_size + k)

\* The batches of a finished loop hold every index: the last one ends at
\* the last chunk (those before it are full, being aligned slices).
Covers(n, lastLen) ==
  /\ n > 0
  /\ (n - 1) * batch_size + lastLen = Len(proc.all_chunks)

\* C15: alignment is kept from chunking to the remote sync.  In every batch
\* that add_chunks and sync_collection pass to collection.add, position k of
\* ids, documents, metadatas and embeddings belongs to one chunk, the one at
\* that index of the original sequence, and when either loop has run to its
\* end every index was passed in exactly one batch.
C15_AlignmentPreserved ==
  /\ \A b \in 1 .. Len(db.added) : BatchAligned(db.added[b].batch, b)
  /\ \A b \in 1 .. Len(SyncAdds) : BatchAligned(SyncAdds[b].batch, b)
  /\ (db.call.pc = "returned" /\ db.call.result > 0)
       => Covers(Len(db.added), Len(db.added[Len(db.added)].batch.ids))
  /\ (rsm.pc = "returned" /\ rsm.result = "True")
       => Covers(Len(SyncAdds), Len(SyncAdds[Len(SyncAdds)].batch.ids))


\* The calls of one kind that sync_collection has issued, in order.
SyncOps(op) == SelectSeq(remote.log, LAMBDA e : e.by = "sync" /\ e.op = op)

\* The place in the log of the first call of sync_collection of that kind,
\* 0 when there is none.
FirstSyncOp(op) ==
  IF \E j \in 1 .. Len(remote.log) : remote.log[j].by = "sync" /\ remote.log[j].op = op
  THEN CHOOSE j \in 1 .. Len(remote.log) :
         /\ remote.log[j].by = "sync" /\ remote.log[j].op = op
         /\ \A h \in 1 .. j - 1 : ~(remote.log[h].by = "sync" /\ remote.log[h].op = op)
  ELSE 0

\* C16: sync_collection with reset_remote=True on a collection that is on
\* the remote deletes it, creates it again and adds every local batch,
\* returning True: delete_collection is issued once for it and never for a
\* collection already deleted, and create_collection comes after the
\* deletion.  A run in which no call failed on the way to the server is
\* meant.
C16_ResetDeletesOnce ==
  (rsm.reset_remote /\ rsm.existed /\ ~rsm.fault) =>
    /\ Len(SyncOps("delete")) <= 1
    /\ \A j \in 1 .. Len(SyncOps("delete")) : SyncOps("delete")[j].existed
    /\ \A j \in 1 .. Len(remote.log) :
         (remote.log[j].by = "sync" /\ remote.log[j].op = "create")
           => (FirstSyncOp("delete") > 0 /\ FirstSyncOp("delete") < j)
    /\ rsm.pc = "returned" =>
         /\ rsm.result = "True"
         /\ Len(SyncOps("delete")) = 1
         /\ Len(SyncOps("create")) = 1
         /\ Len(SyncAdds) * batch_size >= Len(proc.local_data.ids)


\* The sections of the content of the call, as re.split gives them, and the
\* places in the returned list of the chunks tagged with section_index i.
SectionsOfCall == SplitSections(call.content)

SectionText(i) ==
  Slice(call.content, SectionsOfCall[i + 1][1], SectionsOfCall[i + 1][2])

ChunksOfSection(i) ==
  {j \in ChunkIndices : call.chunks[j].metadata.section_index = i}

\* C17: MarkdownChunker.chunk treats each section by its length.  A blank
\* section gives no chunk; a non-blank section of length <= 2*chunk_size is
\* emitted whole as exactly one chunk; a longer one is packed by paragraphs.
\* Every chunk is tagged chunk_type=markdown and the position of its section
\* in the split, so section_index does not decrease along the result.
\* "# Title\n\nShort body." with chunk_size=1000 gives one chunk with
\* section_index=0 and that content.
C17_SectionsByLength ==
  (Returned /\ self.cls = "MarkdownChunker") =>
    /\ \A j \in ChunkIndices :
         /\ call.chunks[j].metadata =
              [chunk_type |-> "markdown",
               section_index |-> call.chunks[j].metadata.section_index]
         /\ call.chunks[j].metadata.section_index \in 0 .. Len(SectionsOfCall) - 1
         /\ j > 1 => call.chunks[j - 1].metadata.section_index
                       <= call.chunks[j].metadata.section_index
    /\ \A i \in 0 .. Len(SectionsOfCall) - 1 :
         IF IsBlank(SectionText(i))
         THEN ChunksOfSection(i) = {}
         ELSE IF Len(SectionText(i)) <= 2 * self.chunk_size
         THEN /\ Cardinality(ChunksOfSection(i)) = 1
              /\ \A j \in ChunksOfSection(i) :
                   /\ call.chunks[j].content = Strip(SectionText(i))
                   /\ call.trace[j].kind = "section"
         ELSE /\ ChunksOfSection(i) # {}
              /\ \A j \in ChunksOfSection(i) : call.trace[j].kind = "paragraphs"
    /\ (call.content = TitleAndBody /\ self.chunk_size = 1000) =>
         call.chunks = <<Chunk(TitleAndBody, call.file_path, MarkdownMeta(0))>>

\* C17, witness: a call has returned for a content whose first section is
\* blank, whose second is emitted whole with section_index 1 and whose third
\* is packed into more than one chunk with section_index 2.
C17_Witness ==
  /\ Returned
  /\ self.cls = "MarkdownChunker"
  /\ Len(SectionsOfCall) = 3
  /\ IsBlank(SectionText(0))
  /\ Len(SectionText(1)) <= 2 * self.chunk_size
  /\ Len(SectionText(2)) > 2 * self.chunk_size
  /\ call.chunks[1].metadata.section_index = 1
  /\ call.trace[1].kind = "section"
  /\ Cardinality(ChunksOfSection(2)) >= 2


\* content[prev_pos:pos].strip() for the boundary that the walk is at
SegmentText(c) == Strip(Slice(c.content, c.prev_pos, c.seq[c.i + 1]))

\* C18: in the boundary walk of CodeChunker.chunk the cursor moves to the
\* boundary exactly when the cursor is at offset 0 or the trimmed segment
\* from the cursor to the boundary is longer than chunk_size; a long segment
\* is packed by lines and the cursor moved after it, a short one at offset 0
\* is emitted whole if it is not empty; for a short segment past offset 0
\* the cursor stays and nothing is emitted.  So a segment emitted whole
\* before the tail starts at offset 0 and is no longer than chunk_size, and
\* a segment finalized past offset 0 is longer than chunk_size and packed by
\* lines.
C18_CursorAdvance ==
  [][/\ (call.pc = "positions" /\ call.i < Len(call.seq)) =>
          LET pos == call.seq[call.i + 1]
              chunk_text == SegmentText(call)
              finalize == call.prev_pos = 0 \/ Len(chunk_text) > self.chunk_size
          IN /\ finalize <=>
                  \/ call'.pc = "lines"
                  \/ call'.pc = "positions" /\ call'.prev_pos = pos
             /\ ~finalize =>
                  /\ call'.pc = "positions"
                  /\ call'.prev_pos = call.prev_pos
                  /\ call'.prev_pos < pos
                  /\ call'.chunks = call.chunks
                  /\ call'.i = call.i + 1
             /\ Len(chunk_text) > self.chunk_size =>
                  /\ call'.pc = "lines"
                  /\ call'.i = call.i
                  /\ call'.prev_pos = call.prev_pos
                  /\ call'.chunks = call.chunks
             /\ (finalize /\ Len(chunk_text) <= self.chunk_size) =>
                  /\ call.prev_pos = 0
                  /\ call'.i = call.i + 1
                  /\ call'.chunks =
                       IF chunk_text = <<>> THEN call.chunks
                       ELSE Append(call.chunks,
                                   Chunk(chunk_text, call.file_path,
                                         CodeMeta(call.language)))
     /\ call.pc = "lines" =>
          /\ Len(SegmentText(call)) > self.chunk_size
          /\ call'.pc = "positions" =>
               /\ call'.prev_pos = call.seq[call.i + 1]
               /\ call'.i = call.i + 1
     /\ \A j \in 1 .. Len(call'.trace) :
          call'.trace[j].kind = "segment" =>
            /\ call'.trace[j].placed[1].lo = 0
            /\ Len(call'.chunks[j].content) <= self.chunk_size]_vars

\* C18, witness: the walk stands past offset 0 after a segment emitted
\* whole and a segment packed by lines, and has left the cursor behind the
\* boundary of a short segment.
C18_Witness ==
  /\ call.pc = "positions"
  /\ call.i >= 3
  /\ call.prev_pos > 0
  /\ call.prev_pos < call.seq[call.i]
  /\ \E j \in ChunkIndices : call.trace[j].kind = "segment"
  /\ \E j \in ChunkIndices : call.trace[j].kind = "lines"


\* The boundaries that CodeChunker.chunk finds in the content of the call;
\* the boundary path is taken when there is one.
BoundariesOfCall == PatternStarts(DetectLanguage(call.file_path), call.content)

BoundaryPath == self.cls = "CodeChunker" /\ BoundariesOfCall # {}

\* The pieces of content placed as new text in the chunks: <<j, n>> for the
\* n-th of chunk j.
Placements ==
  {jn \in ChunkIndices \X (1 .. Len(call.content) + 1) :
     jn[2] <= Len(call.trace[jn[1]].placed)}

PlacementAt(jn) == call.trace[jn[1]].placed[jn[2]]

\* The character at offset o of content stands in a piece that a returned
\* chunk holds.
InSomeChunk(o) ==
  \E jn \in Placements :
    /\ PlacementAt(jn).lo <= o
    /\ o < PlacementAt(jn).hi
    /\ IsInfix(Strip(UnitText(PlacementAt(jn))), call.chunks[jn[1]].content)

\* C19: nothing is lost on the boundary path of CodeChunker.chunk.  The
\* segments finalized in the walk and the tail are slices of content that
\* follow each other without overlap from offset 0 to the end: the pieces
\* placed in the chunks do not overlap and come in order, what is finalized
\* during the walk lies before the cursor and leaves no character other than
\* whitespace before the cursor out, and the tail runs from the cursor, a
\* boundary, to the end.  So every character of content that is not
\* whitespace stands in a returned chunk, and the last chunk is the tail
\* whenever a boundary was found.
C19_NothingLost ==
  BoundaryPath =>
    /\ \A jn \in Placements, hm \in Placements :
         (jn[1] < hm[1] \/ (jn[1] = hm[1] /\ jn[2] < hm[2]))
           => PlacementAt(jn).hi <= PlacementAt(hm).lo
    /\ call.pc \in {"positions", "lines"} =>
         /\ \A jn \in Placements :
              PlacementAt(jn).hi <=
                (IF call.pc = "lines" THEN call.seq[call.i + 1] ELSE call.prev_pos)
         /\ \A o \in 0 .. call.prev_pos - 1 :
              ~IsSpace(call.content[o + 1]) => InSomeChunk(o)
    /\ Returned =>
         /\ \A o \in 0 .. Len(call.content) - 1 :
              ~IsSpace(call.content[o + 1]) => InSomeChunk(o)
         /\ call.chunks # <<>>
         /\ call.trace[Len(call.trace)].kind = "tail"
         /\ call.trace[Len(call.trace)].placed[1].lo \in BoundariesOfCall
         /\ call.trace[Len(call.trace)].placed[1].hi = Len(call.content)
         /\ \A j \in 1 .. Len(call.trace) - 1 : call.trace[j].kind # "tail"

\* C19, witness: a walk has returned a segment emitted whole, a segment
\* packed by lines and the tail, the tail starting before the last boundary.
C19_Witness ==
  /\ Returned
  /\ BoundaryPath
  /\ \E j \in ChunkIndices : call.trace[j].kind = "segment"
  /\ \E j \in ChunkIndices : call.trace[j].kind = "lines"
  /\ call.trace[Len(call.trace)].kind = "tail"
  /\ call.trace[Len(call.trace)].placed[1].lo < SetMax(BoundariesOfCall)


\* Every call that sync_collection has issued on the server, in order.
SyncLog == SelectSeq(remote.log, LAMBDA e : e.by = "sync")

\* sync_collection has found the collection and asked handle_conflict.
Asked == rsm.collection_exists /\ ~rsm.reset_remote /\ rsm.pc # "idle"

\* handle_conflict has read that choice, trimmed, and after it the answer
\* "y", trimmed and in lower case.
Confirmed(choice) == rsm.choice = <<choice>> /\ rsm.confirm = <<"y">>

\* C20: with reset_remote=False sync_collection does not change a
\* collection that is on the remote without a confirmation.  It issues
\* delete_collection only after handle_conflict has read the choice "2" and
\* then the answer "y"; it adds to the collection it found only after the
\* choice "3" and then "y"; after the choice "1" or an answer other than "y"
\* it returns False and has issued no delete, create or add; a choice other
\* than "1", "2", "3" is asked again and gives no action.
C20_ConfirmedBeforeMutation ==
  (~rsm.reset_remote /\ rsm.existed) =>
    /\ \A j \in 1 .. Len(SyncLog) :
         /\ SyncLog[j].op = "delete" => Confirmed("2")
         /\ (SyncLog[j].op = "add" /\ SyncOps("delete") = <<>>) => Confirmed("3")
         /\ (SyncLog[j].op = "create" /\ SyncLog[j].ok) =>
              (Confirmed("2") /\ FirstSyncOp("delete") > 0)
         /\ SyncLog[j].ok => (Confirmed("2") \/ Confirmed("3"))
    /\ Asked =>
         /\ rsm.pc = "conflict" =>
              /\ rsm.action = "none"
              /\ rsm.result = "none"
              /\ SyncLog = <<>>
         /\ rsm.pc # "conflict" =>
              /\ rsm.choice \in { <<"1">>, <<"2">>, <<"3">> }
              /\ rsm.action = (IF Confirmed("2") THEN "overwrite"
                               ELSE IF Confirmed("3") THEN "merge" ELSE "skip")
         /\ (rsm.pc # "conflict" /\ ~Confirmed("2") /\ ~Confirmed("3")) =>
              /\ SyncLog = <<>>
              /\ rsm.pc \in {"act", "returned"}
              /\ rsm.pc = "returned" => rsm.result = "False"

\* C20, witness: after the choice " 2 " and the answer "Y" or the like
\* sync_collection has deleted the collection it found, created it again,
\* added a batch and returned True.
C20_Witness ==
  /\ ~rsm.reset_remote
  /\ rsm.existed
  /\ Asked
  /\ Confirmed("2")
  /\ rsm.pc = "returned"
  /\ rsm.result = "True"
  /\ Len(SyncOps("delete")) = 1
  /\ Len(SyncOps("create")) = 1
  /\ SyncAdds # <<>>


\* The number of iterations of `for i in range(0, len(ids), batch_size)` for
\* the chunks of the call.
BatchCount == (Len(proc.all_chunks) + batch_size - 1) \div batch_size

\* Every entry of the batch is held by the collection.
Persisted(batch, records) ==
  \A k \in 1 .. Len(batch.ids) :
    \E r \in 1 .. Len(records) : records[r].id = batch.ids[k]

\* C21: add_chunks returns len(chunks) or 0.  It returns len(chunks) exactly
\* when every batch, of at most batch_size entries each, was passed to
\* collection.add without an exception; it returns 0 when the collection is
\* not initialized and when the add of any batch raises.  The batches added
\* before a failing one stay in the collection, under a return value of 0
\* too, and in the remote collection when sync_collection returns False.
C21_AllOrZero ==
  /\ \A b \in 1 .. Len(db.added) :
       /\ Len(db.added[b].batch.ids) <= batch_size
       /\ db.added[b].ok => Persisted(db.added[b].batch, db.records)
       /\ b < Len(db.added) => db.added[b].ok
  /\ db.call.pc = "returned" =>
       /\ db.call.result \in {0, Len(proc.all_chunks)}
       /\ db.call.result = Len(proc.all_chunks) <=>
            /\ Len(db.added) = BatchCount
            /\ \A b \in 1 .. Len(db.added) : db.added[b].ok
       /\ ~db.collection => (db.call.result = 0 /\ db.added = <<>>)
       /\ (\E b \in 1 .. Len(db.added) : ~db.added[b].ok) => db.call.result = 0
  /\ \A b \in 1 .. Len(SyncAdds) :
       /\ Len(SyncAdds[b].batch.ids) <= batch_size
       /\ SyncAdds[b].ok => Persisted(SyncAdds[b].batch, remote.records)
       /\ b < Len(SyncAdds) => SyncAdds[b].ok
  /\ (\E b \in 1 .. Len(SyncAdds) : ~SyncAdds[b].ok) =>
       (rsm.pc = "returned" /\ rsm.result = "False")

\* C21, witness: add_chunks has returned 0 after the add of its second batch
\* raised, and the entries of the first batch are in the collection.
C21_Witness ==
  /\ db.call.pc = "returned"
  /\ db.call.result = 0
  /\ db.collection
  /\ Len(db.added) = 2
  /\ db.added[1].ok
  /\ ~db.added[2].ok
  /\ Len(db.records) = batch_size

==============================================================================
